---------------------------- MODULE Spec2Model ----------------------------
(***************************************************************************)
(* A model of the Viola Ex Machina synthesis engine: the Director (message *)
(* queue, transition schedule, delay/pan layout, silence gate) and the     *)
(* producers that post Messages to it.                                     *)
(*                                                                         *)
(* Numbers.  The code computes in f32; the model computes in fixed point   *)
(* with exact integer arithmetic:                                          *)
(*   envelope values            thousandths            (EnvScale)          *)
(*   transition weights         thousandths            (WeightScale)       *)
(*   attack/release rate, volume, stereo width, body resonance             *)
(*                              hundredths             (Hundred)           *)
(*   frequencies                hundredths of a hertz  (centihertz)        *)
(*   pitch bend factor          thousandths            (BendScale)         *)
(*   pan angles                 units of pi / (4 * PanUnit)                *)
(* Step counters and delays are i64 in the code and integers here.         *)
(***************************************************************************)
EXTENDS Integers, Sequences, FiniteSets, TLC

VARIABLES
    director,          \* the fields of the Director struct (director.rs:72-103)
    queue,             \* the mpsc channel: Messages sent and not yet received
    pc,                \* where the render thread is: "idle" between generate()
                       \* calls, "messages" inside the loop of process_messages
    received,          \* the Message most recently returned by try_recv, with
                       \* the step counter at which it was sent and received
    sent,              \* number of Messages sent so far
    purged,            \* the Transitions removed by the most recent purge
    driven,            \* whether the most recent generate() drove the
                       \* Instruments and the Reverb (FALSE: it returned (0,0) early)
    ever_driven,       \* whether any generate() call so far drove them
    calls_since_volume,\* generate() calls since the last one that saw
                       \* instruments[0].get_volume() > 0 (that call counts 0)
    quiet_run,         \* number of most recent driven samples, in a row, whose
                       \* pre-scale |left| and |right| were both <= 0.001
    evaluation,        \* one Transition evaluated for one instrument at
                       \* successive delayed times j: the value it leaves in
                       \* envelope[i], and the time and value before
    applied,           \* the Messages applied so far, in the order applied:
                       \* the producer and the send number of each
    resampler,         \* the fields of a Resampler (resampler.rs:22-28)
    resampling,        \* the calls made on the Resampler: the last call, its
                       \* result or panic, the inputs added and outputs taken
    reverb,            \* the fields of a Reverb (reverb.rs:21-30)
    convolution,       \* the impulse response the Reverb was built from, the
                       \* signal fed to it, the number of process() calls made
                       \* and the value the last one returned
    random,            \* the fields of a Random (random.rs:23-27)
    drawn,             \* the calls made on the Random and the value the last
                       \* one returned
    plugin,            \* the fields of the ViolaExMachina plugin that its
                       \* process callback uses (plugin/src/lib.rs:30-34)
    processed,         \* the host samples processed so far, and what the
                       \* most recent one did: the Messages it sent, in order,
                       \* and the calls it made on the Resamplers
    voice,             \* the fields of an Instrument that decide its frames
                       \* (instrument.rs:27-52), its DecayingNotes included
    playing            \* the generate() calls made on the Instrument, and
                       \* what the most recent one did

vars == <<director, queue, pc, received, sent, purged, driven, ever_driven,
          calls_since_volume, quiet_run, evaluation, applied,
          resampler, resampling, reverb, convolution, random, drawn,
          plugin, processed, voice, playing>>

resampler_vars == <<resampler, resampling>>
reverb_vars == <<reverb, convolution>>
random_vars == <<random, drawn>>
plugin_vars == <<plugin, processed>>
instrument_vars == <<voice, playing>>

\* The variables of the components that are used next to the Director
utilities == <<resampler_vars, reverb_vars, random_vars, plugin_vars, instrument_vars>>

\* The variables of the Director and of the channel that feeds it
director_vars == <<director, queue, pc, received, sent, purged, driven, ever_driven,
                   calls_since_volume, quiet_run, evaluation, applied>>

-----------------------------------------------------------------------------
(* Bounds of the model *)

MaxStep == 210
MaxSent == 2
MaxCount == 3
PeakPeriod == 60

-----------------------------------------------------------------------------
(* Program constants *)

DrainInterval == 200
HoldSteps == 10000
TailSteps == 100
BaseAttackTime == 1000
AttackRange == 20000
ReleaseRange == 5000
ConcertA == 440
ConcertANote == 69
DefaultMaxDelay == 2000

(* Units of the fixed-point representation *)
Hundred == 10 ^ 2
EnvScale == 10 ^ 3
WeightScale == 10 ^ 3
FractionScale == 10 ^ 3
BendScale == 10 ^ 3

InstrumentTypes == {"Violin", "Viola", "Cello", "Bass"}

None == [type |-> "None"]

-----------------------------------------------------------------------------
(* Arithmetic helpers *)

Abs(x) == IF x < 0 THEN -x ELSE x

\* Rust's integer division: the quotient is truncated toward zero.
TruncDiv(a, b) ==
    IF (a >= 0) = (b > 0) THEN Abs(a) \div Abs(b) ELSE -(Abs(a) \div Abs(b))

RECURSIVE Pow2(_)
Pow2(k) == IF k <= 0 THEN 1 ELSE 2 * Pow2(k - 1)

RECURSIVE Factorial(_)
Factorial(k) == IF k <= 1 THEN 1 ELSE k * Factorial(k - 1)

\* 2^(r/12) in millionths, r in 0..11.
SemitoneRatio ==
    <<1000000, 1059463, 1122462, 1189207, 1259921, 1334840,
      1414214, 1498307, 1587401, 1681793, 1781797, 1887749>>

\* 2^(k/12) in units of 1/scale, for an integer k and scale dividing 10^6:
\* f32::powf(2.0, k/12.0).
Pow2Twelfths(k, scale) ==
    LET r == k % 12
        o == (k - r) \div 12
        base == SemitoneRatio[r + 1] \div (1000000 \div scale)
    IN  IF o >= 0 THEN base * Pow2(o) ELSE base \div Pow2(-o)

Min(a, b) == IF a <= b THEN a ELSE b

-----------------------------------------------------------------------------
(* InstrumentType: the playable range of each type.  The methods            *)
(* lowest_note() and highest_note() are called by the Director but defined  *)
(* outside the files at hand; the ranges are the open-string-to-top ranges  *)
(* of the four instruments.                                                 *)

lowest_note(instrument_type) ==
    CASE instrument_type = "Violin" -> 55
      [] instrument_type = "Viola"  -> 48
      [] instrument_type = "Cello"  -> 36
      [] instrument_type = "Bass"   -> 28

highest_note(instrument_type) ==
    CASE instrument_type = "Violin" -> 103
      [] instrument_type = "Viola"  -> 96
      [] instrument_type = "Cello"  -> 84
      [] instrument_type = "Bass"   -> 67

-----------------------------------------------------------------------------
(* Instrument, as far as the Director reads and writes it *)

\* One unit of Instrument.volume: actual_volume (1/10000) times envelope.
VolumeUnit == Hundred * Hundred * EnvScale

\* Instrument::new
NewInstrument(instrument_type, index) ==
    [volume |-> VolumeUnit,
     frequency |-> ConcertA * Hundred,
     start_new_note |-> FALSE,
     last_note |-> 0]

\* Instrument::note_on
InstrumentNoteOn(instrument, note) ==
    IF note # instrument.last_note
    THEN [instrument EXCEPT !.start_new_note = TRUE, !.last_note = note]
    ELSE instrument

\* Instrument::generate, the part the Director can see: at a frame boundary
\* a pending new-note signal is consumed.
InstrumentGenerate(instrument, at_frame_boundary) ==
    IF at_frame_boundary /\ instrument.start_new_note
    THEN [instrument EXCEPT !.start_new_note = FALSE]
    ELSE instrument

-----------------------------------------------------------------------------
(* Director *)

InstrumentCount(d) == Len(d.instruments)

\* Director::update_volume
update_volume(d) ==
    LET actual_volume == 5 * Hundred + 95 * d.volume
    IN  [d EXCEPT !.instruments =
            [i \in 1..InstrumentCount(d) |->
                [d.instruments[i] EXCEPT !.volume = actual_volume * d.envelope[i]]]]

\* Director::update_frequency
update_frequency(d) ==
    [d EXCEPT !.instruments =
        [i \in 1..InstrumentCount(d) |->
            [d.instruments[i] EXCEPT
                !.frequency = (d.frequency[i] * d.bend) \div BendScale]]]

\* The unit of a pan angle is pi / (4 * PanUnit): every angle the code can
\* compute for an ensemble of up to MaxCount + 1 instruments is a whole
\* number of units.
PanUnit == Hundred * Factorial(MaxCount + 1)

\* Director::update_pan_positions
\* 0.5*PI*(0.5 + w*(i/(n-1) - 0.5)) = (PI/4) * (1 + w*(2i - (n-1))/(n-1))
update_pan_positions(d) ==
    LET n == InstrumentCount(d)
    IN  IF n = 1
        THEN [d EXCEPT !.instrument_pan[1] = PanUnit]
        ELSE [d EXCEPT !.instrument_pan =
                [k \in 1..n |->
                    PanUnit + (d.stereo_width * (2 * (k - 1) - (n - 1))
                               * (PanUnit \div Hundred)) \div (n - 1)]]

\* Mutant of update_instrument_delays: the spread is divided by the count
update_instrument_delays_by_count(d) ==
    LET n == InstrumentCount(d)
    IN  IF n = 1
        THEN [d EXCEPT !.instrument_delays[1] = 0]
        ELSE [d EXCEPT !.instrument_delays =
                [k \in 1..n |->
                    LET index == ((k - 1) + (n \div 2)) % n
                    IN  TruncDiv(d.max_instrument_delay * index, n)]]

\* Director::update_instrument_delays
update_instrument_delays(d) ==
    LET n == InstrumentCount(d)
    IN  IF n = 1
        THEN [d EXCEPT !.instrument_delays[1] = 0]
        ELSE [d EXCEPT !.instrument_delays =
                [k \in 1..n |->
                    LET index == ((k - 1) + (n \div 2)) % n
                    IN  TruncDiv(d.max_instrument_delay * index, n - 1)]]

\* Mutant of BodyResonance: the cello has the coefficient of the violin
BodyResonance_cello(instrument_type) ==
    CASE instrument_type = "Violin" -> 18
      [] instrument_type = "Viola"  -> 18
      [] instrument_type = "Cello"  -> 18
      [] instrument_type = "Bass"   -> 50

\* Director::initialize_instruments, lines 163-176, in hundredths
BodyResonance(instrument_type) ==
    CASE instrument_type = "Violin" -> 18
      [] instrument_type = "Viola"  -> 18
      [] instrument_type = "Cello"  -> 35
      [] instrument_type = "Bass"   -> 50

\* Director::initialize_instruments
initialize_instruments(d, instrument_type, instrument_count) ==
    LET d1 == [d EXCEPT
                !.instrument_type = instrument_type,
                !.instruments = [i \in 1..instrument_count |->
                                    NewInstrument(instrument_type, i - 1)],
                !.transitions = <<>>,
                !.current_note = None,
                !.instrument_delays = [i \in 1..instrument_count |-> 0],
                !.instrument_pan = [i \in 1..instrument_count |-> 0],
                !.envelope = [i \in 1..instrument_count |-> 0],
                !.frequency = [i \in 1..instrument_count |-> ConcertA * Hundred],
                !.bend = BendScale,
                !.envelope_after_transitions = 0,
                !.frequency_after_transitions = 0,
                !.lowest_note = lowest_note(instrument_type),
                !.highest_note = highest_note(instrument_type),
                !.body_resonance = BodyResonance(instrument_type),
                !.reverb = IF instrument_count > 1 THEN 2 ELSE 1]
    IN  update_instrument_delays(
            update_frequency(update_volume(update_pan_positions(d1))))

\* Director::new
NewDirector(instrument_type, instrument_count) ==
    initialize_instruments(
        [instruments |-> <<>>,
         instrument_type |-> instrument_type,
         lowest_note |-> 0,
         highest_note |-> 0,
         step |-> 0,
         steps_until_off |-> 0,
         transitions |-> <<>>,
         current_note |-> None,
         max_instrument_delay |-> DefaultMaxDelay,
         instrument_delays |-> <<>>,
         volume |-> 100,
         envelope |-> <<>>,
         frequency |-> <<>>,
         bend |-> BendScale,
         vibrato |-> 40,
         intensity |-> 50,
         brightness |-> 100,
         attack_rate |-> 80,
         release_rate |-> 50,
         body_resonance |-> 10,
         accent |-> FALSE,
         envelope_after_transitions |-> 0,
         frequency_after_transitions |-> 0,
         stereo_width |-> 30,
         instrument_pan |-> <<>>,
         reverb |-> 0,
         randomize |-> 10],
        instrument_type, instrument_count)

\* Director::add_transition
add_transition(d, delay, duration, data) ==
    LET transition == [start |-> d.step + delay,
                       end |-> d.step + delay + duration,
                       data |-> data]
        d1 == IF data.kind = "EnvelopeChange"
              THEN [d EXCEPT !.envelope_after_transitions = data.end_value]
              ELSE [d EXCEPT !.frequency_after_transitions = data.end_value]
    IN  [d1 EXCEPT !.transitions = Append(d.transitions, transition)]

IsEnvelopeChange(t) == t.data.kind = "EnvelopeChange"
NotEnvelopeChange(t) == ~IsEnvelopeChange(t)

\* Mutant of add_envelope_transition: the pending transitions are kept
add_envelope_transition_keep(d, time, end_envelope) ==
    add_transition(d, 0, time,
        [kind |-> "EnvelopeChange",
         start_value |-> d.envelope[1],
         end_value |-> end_envelope])

\* Director::add_envelope_transition
add_envelope_transition(d, time, end_envelope) ==
    LET d1 == [d EXCEPT !.transitions = SelectSeq(d.transitions, NotEnvelopeChange)]
    IN  add_transition(d1, 0, time,
            [kind |-> "EnvelopeChange",
             start_value |-> d.envelope[1],
             end_value |-> end_envelope])

\* Mutant of RampTime: the rate itself scales the range, not 1 - rate
RampTime_rate(range, rate) ==
    BaseAttackTime + TruncDiv(range * rate, Hundred)

\* 1000 + (range*(1.0-rate)) as i64, the rate in hundredths
RampTime(range, rate) ==
    BaseAttackTime + TruncDiv(range * (Hundred - rate), Hundred)

\* 440.0 * 2^((note_index-69)/12), in centihertz
NoteFrequency(note_index) ==
    (ConcertA * Pow2Twelfths(note_index - ConcertANote, 10000)) \div Hundred

\* Mutant of note_on: the range test has no upper bound
note_on_no_upper_bound(d, note_index) ==
    IF note_index < d.lowest_note
    THEN d
    ELSE LET d1 == [d EXCEPT !.frequency =
                        [i \in 1..Len(d.envelope) |-> NoteFrequency(note_index)]]
             d2 == update_frequency(d1)
             d3 == add_envelope_transition(d2, RampTime(AttackRange, d2.attack_rate),
                                           EnvScale)
         IN  [d3 EXCEPT !.instruments =
                [i \in 1..InstrumentCount(d3) |->
                    InstrumentNoteOn(d3.instruments[i], note_index)]]

\* Director::note_on
note_on(d, note_index) ==
    IF note_index < d.lowest_note \/ note_index > d.highest_note
    THEN d
    ELSE LET d1 == [d EXCEPT !.frequency =
                        [i \in 1..Len(d.envelope) |-> NoteFrequency(note_index)]]
             d2 == update_frequency(d1)
             d3 == add_envelope_transition(d2, RampTime(AttackRange, d2.attack_rate),
                                           EnvScale)
         IN  [d3 EXCEPT !.instruments =
                [i \in 1..InstrumentCount(d3) |->
                    InstrumentNoteOn(d3.instruments[i], note_index)]]

\* Director::note_off
note_off(d) ==
    add_envelope_transition(d, RampTime(ReleaseRange, d.release_rate), 0)

\* Director::process_messages, the body of the match for one Message
process_message(d, m) ==
    CASE m.type = "Reinitialize" ->
            initialize_instruments(d, m.instrument_type, m.instrument_count)
      [] m.type = "NoteOn" -> note_on(d, m.note_index)
      [] m.type = "NoteOff" -> note_off(d)
      [] m.type = "SetVolume" -> update_volume([d EXCEPT !.volume = m.volume])
      [] m.type = "SetPitchBend" ->
            update_frequency([d EXCEPT !.bend = Pow2Twelfths(m.semitones, BendScale)])
      [] m.type = "SetVibrato" -> [d EXCEPT !.vibrato = m.vibrato]
      [] m.type = "SetIntensity" -> [d EXCEPT !.intensity = m.intensity]
      [] m.type = "SetBrightness" -> [d EXCEPT !.brightness = m.brightness]
      [] m.type = "SetAttackRate" -> [d EXCEPT !.attack_rate = m.attack]
      [] m.type = "SetReleaseRate" -> [d EXCEPT !.release_rate = m.release]
      [] m.type = "SetAccent" -> [d EXCEPT !.accent = m.accent]
      [] m.type = "SetStereoWidth" ->
            update_pan_positions([d EXCEPT !.stereo_width = m.width])
      [] m.type = "SetMaxInstrumentDelay" ->
            update_instrument_delays([d EXCEPT !.max_instrument_delay = m.max_delay])
      [] m.type = "SetRandomize" -> [d EXCEPT !.randomize = m.randomize]

\* 0.5 - 0.5*cos(PI*p/q) for 0 <= p < q, in units of 1/WeightScale.  The
\* cosine is Bhaskara's rational approximation, cos(PI*x) ~ (1-4x^2)/(1+x^2)
\* on [0, 1/2] and mirrored on [1/2, 1]; it is exact at x = 0, 1/2 and 1.
RaisedCosine(p, q) ==
    LET f == (p * FractionScale) \div q
        g == FractionScale - f
        one == FractionScale * FractionScale
    IN  IF 2 * f <= FractionScale
        THEN (WeightScale * 5 * f * f) \div (2 * (one + f * f))
        ELSE (WeightScale * (2 * one - 3 * g * g)) \div (2 * (one + g * g))

\* Director::update_transitions, lines 361-363: the weight of the end value
weight2(transition, j) ==
    IF j < transition.end
    THEN RaisedCosine(j - transition.start, transition.end - transition.start)
    ELSE WeightScale

\* Mutant of apply_transition: a transition starts one step late
apply_transition_late(transition, j, value) ==
    IF j > transition.start
    THEN LET w2 == weight2(transition, j)
             w1 == WeightScale - w2
         IN  (w1 * transition.data.start_value + w2 * transition.data.end_value)
                \div WeightScale
    ELSE value

\* Director::update_transitions, lines 360-374: what one transition does to
\* the value of one instrument at the instrument's delayed time j
apply_transition(transition, j, value) ==
    IF j >= transition.start
    THEN LET w2 == weight2(transition, j)
             w1 == WeightScale - w2
         IN  (w1 * transition.data.start_value + w2 * transition.data.end_value)
                \div WeightScale
    ELSE value

\* The loop over the transitions, for one instrument and one kind of data
RECURSIVE apply_transitions(_, _, _, _)
apply_transitions(transitions, kind, j, value) ==
    IF transitions = <<>> THEN value
    ELSE LET t == Head(transitions)
         IN  apply_transitions(Tail(transitions), kind, j,
                IF t.data.kind = kind THEN apply_transition(t, j, value) ELSE value)

\* Mutant of keep_transition: only half of the max delay is waited for
keep_transition_half_delay(d, t) == d.step < t.end + d.max_instrument_delay \div 2

\* Mutant of keep_transition: a transition is kept through step = end + delay
keep_transition_inclusive(d, t) == d.step <= t.end + d.max_instrument_delay

\* Mutant of keep_transition: the delay of the instruments is forgotten
keep_transition_no_delay(d, t) == d.step < t.end

\* The test of the retain at the end of update_transitions (line 383)
keep_transition(d, t) == d.step < t.end + d.max_instrument_delay

\* Director::update_transitions
update_transitions(d) ==
    LET n == InstrumentCount(d)
        j(i) == d.step - d.instrument_delays[i]
        changed(kind) ==
            \E k \in 1..Len(d.transitions) : \E i \in 1..n :
                d.transitions[k].data.kind = kind /\ j(i) >= d.transitions[k].start
        d1 == [d EXCEPT
                !.envelope = [i \in 1..n |->
                    apply_transitions(d.transitions, "EnvelopeChange", j(i), d.envelope[i])],
                !.frequency = [i \in 1..n |->
                    apply_transitions(d.transitions, "FrequencyChange", j(i), d.frequency[i])]]
        d2 == IF changed("EnvelopeChange") THEN update_volume(d1) ELSE d1
        d3 == IF changed("FrequencyChange") THEN update_frequency(d2) ELSE d2
        keep(t) == keep_transition(d3, t)
    IN  [d3 EXCEPT !.transitions = SelectSeq(d3.transitions, keep)]

\* The Transitions the retain of update_transitions drops
purged_by(d) ==
    LET d1 == update_transitions(d)
        dropped(t) == ~keep_transition(d1, t)
    IN  SelectSeq(d.transitions, dropped)

\* Mutants of is_drain_step: a drain every 201 calls; a drain in every call
is_drain_step_201(step) == step % (DrainInterval + 1) = 0
is_drain_step_always(step) == TRUE

\* Director::generate, line 248
is_drain_step(step) == step % DrainInterval = 0

\* Director::generate, lines 252-258: the counter after the volume test
hold_after_volume(d) ==
    IF d.instruments[1].volume > 0 THEN HoldSteps ELSE d.steps_until_off

\* Mutant of hold_after_sample: the tail is restarted one step too late
hold_after_sample_short(steps_until_off, loud) ==
    IF steps_until_off < TailSteps - 1 /\ loud THEN TailSteps ELSE steps_until_off

\* Director::generate, lines 280-282: the counter after the sample is mixed
hold_after_sample(steps_until_off, loud) ==
    IF steps_until_off < TailSteps /\ loud THEN TailSteps ELSE steps_until_off

\* Director::generate, lines 252-285.  loud: whether the mixed sample has
\* |left| > 0.001 or |right| > 0.001; boundary: the instruments whose
\* generate() is at a frame boundary in this call.
generate_sample(d, loud, boundary) ==
    LET d1 == [d EXCEPT !.step = d.step + 1]
        hold == hold_after_volume(d1)
    IN  IF hold = 0
        THEN [d1 EXCEPT !.steps_until_off = hold]
        ELSE [d1 EXCEPT
                !.steps_until_off = hold_after_sample(hold - 1, loud),
                !.instruments = [i \in 1..InstrumentCount(d1) |->
                    InstrumentGenerate(d1.instruments[i], i \in boundary)]]

\* Whether generate_sample gets past the early return of line 260
drives(d) == hold_after_volume(d) # 0

-----------------------------------------------------------------------------
(* Messages *)

NoteOn(note_index) == [type |-> "NoteOn", note_index |-> note_index]
NoteOff == [type |-> "NoteOff"]
Reinitialize(instrument_type, instrument_count) ==
    [type |-> "Reinitialize", instrument_type |-> instrument_type,
     instrument_count |-> instrument_count]
SetMaxInstrumentDelay(max_delay) ==
    [type |-> "SetMaxInstrumentDelay", max_delay |-> max_delay]
SetAttackRate(attack) == [type |-> "SetAttackRate", attack |-> attack]
SetReleaseRate(release) == [type |-> "SetReleaseRate", release |-> release]
SetStereoWidth(width) == [type |-> "SetStereoWidth", width |-> width]
SetVolume(volume) == [type |-> "SetVolume", volume |-> volume]
SetPitchBend(semitones) == [type |-> "SetPitchBend", semitones |-> semitones]

NoteKinds == {"NoteOn", "NoteOff", "SetPitchBend"}

-----------------------------------------------------------------------------
(* Resampler.  Times (x2, next_output_time) are counted in units of         *)
(* 1/sample_rate of an input sample, so that one input sample is            *)
(* sample_rate units and output_interval is SAMPLE_RATE units; results are  *)
(* in units of 1/sample_rate of the input values.  The arithmetic is exact. *)

SAMPLE_RATE == 48000

\* The call returned normally
NoPanic == "none"

\* Mutant of NewResampler: the first output is due one interval later
NewResampler_late(sample_rate) ==
    [sample_rate |-> sample_rate,
     output_interval |-> SAMPLE_RATE,
     x2 |-> 0,
     y1 |-> 0,
     y2 |-> 0,
     next_output_time |-> SAMPLE_RATE]

\* Resampler::new
NewResampler(sample_rate) ==
    [sample_rate |-> sample_rate,
     output_interval |-> SAMPLE_RATE,
     x2 |-> 0,
     y1 |-> 0,
     y2 |-> 0,
     next_output_time |-> 0]

\* Resampler::has_output
has_output(r) == r.next_output_time <= r.x2

\* Mutant of rewind: only x2 is brought back
RECURSIVE rewind_x2_only(_)
rewind_x2_only(r) ==
    IF r.x2 > r.sample_rate /\ r.next_output_time > r.sample_rate
    THEN rewind_x2_only([r EXCEPT !.x2 = r.x2 - r.sample_rate])
    ELSE r

\* Resampler::get_output, lines 53-56: both times are brought back by whole
\* input samples while both are above one
RECURSIVE rewind(_)
rewind(r) ==
    IF r.x2 > r.sample_rate /\ r.next_output_time > r.sample_rate
    THEN rewind([r EXCEPT !.x2 = r.x2 - r.sample_rate,
                          !.next_output_time = r.next_output_time - r.sample_rate])
    ELSE r

\* Mutant of get_output: no assertion, the interpolation goes ahead
get_output_unchecked(r) ==
    LET f == r.x2 - r.next_output_time
    IN  [resampler |-> rewind([r EXCEPT !.next_output_time =
                                            r.next_output_time + r.output_interval]),
         result |-> f * r.y1 + (r.sample_rate - f) * r.y2,
         weight |-> f,
         returned |-> TRUE,
         panic |-> NoPanic]

\* Mutant of get_output: the two weights are exchanged
get_output_swapped(r) ==
    IF ~has_output(r)
    THEN [resampler |-> r, returned |-> FALSE, result |-> 0, weight |-> 0,
          panic |-> "No output ready"]
    ELSE LET f == r.x2 - r.next_output_time
         IN  [resampler |-> rewind([r EXCEPT !.next_output_time =
                                                r.next_output_time + r.output_interval]),
              result |-> f * r.y2 + (r.sample_rate - f) * r.y1,
              weight |-> f,
              returned |-> TRUE,
              panic |-> NoPanic]

\* Resampler::get_output: the Resampler after the call, the value returned
\* and the weight f used, or the panic of the assertion
get_output(r) ==
    IF ~has_output(r)
    THEN [resampler |-> r, returned |-> FALSE, result |-> 0, weight |-> 0,
          panic |-> "No output ready"]
    ELSE LET f == r.x2 - r.next_output_time
         IN  [resampler |-> rewind([r EXCEPT !.next_output_time =
                                                r.next_output_time + r.output_interval]),
              result |-> f * r.y1 + (r.sample_rate - f) * r.y2,
              weight |-> f,
              returned |-> TRUE,
              panic |-> NoPanic]

\* Resampler::add_input
add_input(r, y) ==
    IF has_output(r)
    THEN [resampler |-> r, panic |-> "Cannot add input when output is ready"]
    ELSE [resampler |-> [r EXCEPT !.y1 = r.y2, !.y2 = y,
                                  !.x2 = r.x2 + r.sample_rate],
          panic |-> NoPanic]

-----------------------------------------------------------------------------
(* Reverb (reverb.rs).  Samples and taps are integers.  The rings are       *)
(* functions on 0 .. 2*width-1, as the Vecs of the code are; a Block keeps  *)
(* the zero-padded part of the impulse response whose transform the code    *)
(* keeps.                                                                   *)

\* Reverb::new, line 53: the taps convolved directly
DirectWidth == 16

\* Reverb::new, lines 37-40
RECURSIVE next_power_of_two(_, _)
next_power_of_two(width, len) ==
    IF width < len THEN next_power_of_two(2 * width, len) ELSE width

\* Vec::resize(width, 0.0) of a Vec no longer than width
resize(ir, width) == [i \in 1..width |-> IF i <= Len(ir) THEN ir[i] ELSE 0]

\* Mutant of block_widths: the loop stops before the full width
RECURSIVE block_widths_short(_, _)
block_widths_short(block_width, width) ==
    IF block_width < width
    THEN <<block_width>> \o block_widths_short(2 * block_width, width)
    ELSE <<>>

\* Reverb::new, lines 55-74: the widths of the blocks the loop builds
RECURSIVE block_widths(_, _)
block_widths(block_width, width) ==
    IF block_width <= width
    THEN <<block_width>> \o block_widths(2 * block_width, width)
    ELSE <<>>

\* Reverb::new, lines 63-72: the block made from ir[block_width/2 ..
\* block_width] followed by block_width/2 zeros
NewBlock(ir, block_width) ==
    [width |-> block_width,
     ir |-> [i \in 1..block_width |->
                IF i <= block_width \div 2 THEN ir[block_width \div 2 + i] ELSE 0]]

\* Mutant of ring_size: the rings are as long as the padded impulse response
ring_size_width(width) == width

\* Reverb::new, lines 78-79: the length of the input and output rings
ring_size(width) == 2 * width

\* Reverb::new
NewReverb(ir) ==
    LET width == next_power_of_two(1, Len(ir))
        padded == resize(ir, width)
        direct_width == Min(width, DirectWidth)
        widths == block_widths(2 * direct_width, width)
    IN  [input_ring |-> [i \in 0..(ring_size(width) - 1) |-> 0],
         output_ring |-> [i \in 0..(ring_size(width) - 1) |-> 0],
         position |-> 0,
         ir |-> SubSeq(padded, 1, direct_width),
         blocks |-> [n \in 1..Len(widths) |-> NewBlock(padded, widths[n])]]

\* Vec::len of a ring
Size(ring) == Cardinality(DOMAIN ring)

\* Reverb::process, lines 97-99: the direct convolution, from tap i on
RECURSIVE add_direct(_, _, _, _, _)
add_direct(output_ring, ir, input, position, i) ==
    IF i >= Len(ir) THEN output_ring
    ELSE add_direct([output_ring EXCEPT
                        ![(position + i) % Size(output_ring)] = @ + input * ir[i + 1]],
                    ir, input, position, i + 1)

\* Reverb::process, line 108: where the slice of the input ring that a block
\* reads begins; it ends before position + 1
slice_start(position, half_width) == position + 1 - half_width

\* Reverb::process, line 108 and lines 109-111: the last half_width inputs
\* followed by zeros
block_input(input_ring, position, width) ==
    [i \in 1..width |->
        IF i <= width \div 2
        THEN input_ring[slice_start(position, width \div 2) + (i - 1)]
        ELSE 0]

\* Element i (from 0) of the circular convolution of x and y, both of the
\* given width: the sum of its terms a, from .. to - 1
RECURSIVE circular_convolution(_, _, _, _, _, _)
circular_convolution(x, y, width, i, from, to) ==
    IF to - from = 1
    THEN x[from + 1] * y[((i - from + width) % width) + 1]
    ELSE LET middle == (from + to) \div 2
         IN  circular_convolution(x, y, width, i, from, middle)
                + circular_convolution(x, y, width, i, middle, to)

\* Reverb::process, lines 113-130: forward transform, product with the
\* block's spectrum, inverse transform and scaling by 1/width
block_output(block, input_ring, position) ==
    LET x == block_input(input_ring, position, block.width)
    IN  [i \in 1..block.width |->
            circular_convolution(x, block.ir, block.width, i - 1, 0, block.width)]

\* Mutant of output_index: the block's output is added one sample early
output_index_early(position, i, len) == (position + i) % len

\* Reverb::process, line 132: where element i of a block's output is added
output_index(position, i, len) == (position + 1 + i) % len

\* Reverb::process, lines 131-133: every element of the block's output is
\* added to the output ring; a block is no wider than the ring, so no two
\* elements are added at the same place
add_block(output_ring, real_temp, position) ==
    [j \in DOMAIN output_ring |->
        LET added == {i \in 0..(Len(real_temp) - 1) :
                        output_index(position, i, Size(output_ring)) = j}
        IN  IF added = {} THEN output_ring[j]
            ELSE output_ring[j] + real_temp[(CHOOSE i \in added : TRUE) + 1]]

\* Mutant of is_block_step: a block is evaluated once in its whole width
is_block_step_full(position, half_width) ==
    position % (2 * half_width) = 2 * half_width - 1

\* Reverb::process, line 105: whether a block is evaluated in this call
is_block_step(position, half_width) == position % half_width = half_width - 1

\* Reverb::process, lines 103-135, from block n on
RECURSIVE add_blocks(_, _, _)
add_blocks(r, output_ring, n) ==
    IF n > Len(r.blocks) THEN output_ring
    ELSE LET block == r.blocks[n]
             half_width == block.width \div 2
         IN  IF is_block_step(r.position, half_width)
             THEN add_blocks(r, add_block(output_ring,
                                          block_output(block, r.input_ring, r.position),
                                          r.position),
                             n + 1)
             ELSE add_blocks(r, output_ring, n + 1)

\* Reverb::process
process(r, input) ==
    LET stored == [r EXCEPT !.input_ring[r.position] = input]
        direct == add_direct(r.output_ring, r.ir, input, r.position, 0)
        output_ring == add_blocks(stored, direct, 1)
    IN  [reverb |-> [stored EXCEPT
                        !.output_ring = [output_ring EXCEPT ![r.position] = 0],
                        !.position = (r.position + 1) % Size(output_ring)],
         result |-> output_ring[r.position]]

-----------------------------------------------------------------------------
(* Random (random.rs).  A u32 is a pair of 16 bit halves, hi and lo; an f32 *)
(* that holds an integer of up to 2^32 is such a pair too, with hi = 2^16   *)
(* and lo = 0 for 2^32.                                                     *)

\* Random::get_int, line 49
Multiplier == 1664525
Increment == 1013904223

Half == 2 ^ 16

\* The u32 of value n, for n below 2^31
U32(n) == [hi |-> n \div Half, lo |-> n % Half]

\* Random::get_int, line 49: (i as u64)*1664525 + 1013904223, as u32
next_int(i) ==
    LET low == i.lo * (Multiplier % Half) + (Increment % Half)
        high == ((i.hi * (Multiplier % Half)) % Half)
                    + i.lo * (Multiplier \div Half)
                    + (Increment \div Half)
                    + (low \div Half)
    IN  [hi |-> high % Half, lo |-> low % Half]

\* Random::get_int
get_int(r) ==
    [random |-> [r EXCEPT !.i = next_int(r.i)], result |-> next_int(r.i)]

\* The number of bits of n
RECURSIVE bits(_)
bits(n) == IF n = 0 THEN 0 ELSE 1 + bits(n \div 2)

\* u32 as f32 (random.rs:55): the nearest value with 24 significant bits,
\* ties to the even one
as_f32(v) ==
    IF bits(v.hi) <= 8 THEN v
    ELSE LET unit == Pow2(bits(v.hi) - 8)
             dropped == v.lo % unit
             odd == (v.lo \div unit) % 2 = 1
             up == 2 * dropped > unit \/ (2 * dropped = unit /\ odd)
             lo == v.lo - dropped + (IF up THEN unit ELSE 0)
         IN  IF lo = Half THEN [hi |-> v.hi + 1, lo |-> 0]
             ELSE [hi |-> v.hi, lo |-> lo]

\* Random::get_uniform: UNIFORM_SCALE is 2^-32, so the product is exact; the
\* result is given as its numerator over 2^32
get_uniform(r) ==
    LET out == get_int(r)
    IN  [random |-> out.random, result |-> as_f32(out.result)]

-----------------------------------------------------------------------------
(* Actions *)

\* The producer of a Message: the editor (UI thread) sends Reinitialize, the
\* process callback of the plugin sends everything else
ProducerOf(m) == IF m.type = "Reinitialize" THEN "editor" ELSE "process"

\* Mutant of channel_send: a channel of capacity one whose send fails, and
\* is ignored, when a Message is waiting
channel_send_bounded(channel, entry) ==
    IF channel # <<>> THEN channel ELSE Append(channel, entry)

\* mpsc::Sender::send on the unbounded channel made by mpsc::channel()
channel_send(channel, entry) == Append(channel, entry)

\* sender.send(message), from any producer
Send(m) ==
    /\ queue' = channel_send(queue, [message |-> m, sent_at |-> director.step,
                                     producer |-> ProducerOf(m), id |-> sent + 1])
    /\ sent' = sent + 1
    /\ UNCHANGED <<director, pc, received, purged, driven, ever_driven,
                   calls_since_volume, quiet_run, evaluation, applied, utilities>>

\* One turn of the loop of process_messages in which try_recv returns a
\* Message.  The first turn is the start of a generate() call.
ProcessMessage ==
    /\ is_drain_step(director.step)
    /\ queue # <<>>
    /\ pc' = "messages"
    /\ received' = [message |-> Head(queue).message,
                    sent_at |-> Head(queue).sent_at,
                    received_at |-> director.step]
    /\ queue' = Tail(queue)
    /\ director' = process_message(director, Head(queue).message)
    /\ applied' = Append(applied, [producer |-> Head(queue).producer,
                                   id |-> Head(queue).id])
    /\ UNCHANGED <<sent, purged, driven, ever_driven, calls_since_volume, quiet_run,
                   evaluation, utilities>>

\* What the Director cannot decide: whether the mixed sample of a call is
\* above the 0.001 threshold, and which Instruments start a frame in it.
\* A sample can be above the threshold at a peak of the waveform only.
is_peak(step) == step % PeakPeriod = 0
PeakLoud(step) == IF is_peak(step) THEN BOOLEAN ELSE {FALSE}
NeverLoud(step) == {FALSE}
\* While the hold counter is above the tail a loud sample changes nothing in
\* the Director; once it is within the tail any sample can be loud.
TailLoud(d) ==
    IF is_peak(d.step + 1) \/ d.steps_until_off <= TailSteps + 2
    THEN BOOLEAN ELSE {FALSE}
Pending(d) == {i \in 1..InstrumentCount(d) : d.instruments[i].start_new_note}
AnyBoundary(d) == SUBSET Pending(d)
AllBoundary(d) == {Pending(d)}

\* The rest of a generate() call from line 252 on, applied to d
Sample(d, louds, boundaries) ==
    /\ pc' = "idle"
    /\ calls_since_volume' =
            IF d.instruments[1].volume > 0 THEN 0
            ELSE Min(calls_since_volume + 1, HoldSteps)
    /\ driven' = drives(d)
    /\ ever_driven' = (ever_driven \/ drives(d))
    /\ IF drives(d)
       THEN \E loud \in louds : \E boundary \in boundaries :
                /\ director' = generate_sample(d, loud, boundary)
                /\ quiet_run' = IF loud THEN 0 ELSE Min(quiet_run + 1, TailSteps)
       ELSE /\ director' = generate_sample(d, FALSE, {})
            /\ quiet_run' = quiet_run

\* A generate() call at a drain step, from the turn of the loop in which
\* try_recv returns Err: update_transitions and the rest of the call.
GenerateAfterDrain(louds, boundaries) ==
    /\ is_drain_step(director.step)
    /\ queue = <<>>
    /\ purged' = purged_by(director)
    /\ Sample(update_transitions(director), louds, boundaries)
    /\ UNCHANGED <<queue, received, sent, evaluation, applied, utilities>>

\* A generate() call at any other step
Generate(louds, boundaries) ==
    /\ ~is_drain_step(director.step)
    /\ pc = "idle"
    /\ Sample(director, louds, boundaries)
    /\ UNCHANGED <<queue, received, sent, purged, evaluation, applied, utilities>>

\* The inputs kept for reference: the most recent ones, the latest last
RecentLen == 3
Recent(recent, y) ==
    IF Len(recent) < RecentLen THEN Append(recent, y) ELSE Append(Tail(recent), y)

\* A caller constructs a Resampler for an output rate
InitResampler(rates) ==
    /\ \E sample_rate \in rates : resampler = NewResampler(sample_rate)
    /\ resampling = [calls |-> 0, call |-> "new", panic |-> NoPanic,
                     returned |-> FALSE, result |-> 0, weight |-> 0,
                     inputs |-> 0, outputs |-> 0, recent |-> <<>>]

\* A caller calls get_output(), whether or not output is ready
GetOutput ==
    /\ resampling.panic = NoPanic
    /\ LET out == get_output(resampler)
       IN  /\ resampler' = out.resampler
           /\ resampling' = [resampling EXCEPT
                                !.calls = @ + 1,
                                !.call = "get_output",
                                !.panic = out.panic,
                                !.returned = out.returned,
                                !.result = out.result,
                                !.weight = out.weight,
                                !.outputs = IF out.returned THEN @ + 1 ELSE @]
    /\ UNCHANGED <<director_vars, reverb_vars, random_vars,
                   plugin_vars, instrument_vars>>

\* A caller calls add_input(y), whether or not output is waiting
AddInput(y) ==
    /\ resampling.panic = NoPanic
    /\ LET out == add_input(resampler, y)
       IN  /\ resampler' = out.resampler
           /\ resampling' = [resampling EXCEPT
                                !.calls = @ + 1,
                                !.call = "add_input",
                                !.panic = out.panic,
                                !.returned = FALSE,
                                !.result = 0,
                                !.weight = 0,
                                !.inputs = IF out.panic = NoPanic THEN @ + 1 ELSE @,
                                !.recent = IF out.panic = NoPanic THEN Recent(@, y) ELSE @]
    /\ UNCHANGED <<director_vars, reverb_vars, random_vars,
                   plugin_vars, instrument_vars>>

\* The signals fed to a Reverb: an impulse, and two signals of small
\* integers that last for a number of samples and are 0 afterwards
Signal(signal, t) ==
    IF t < 0 \/ t >= signal.length THEN 0
    ELSE IF signal.kind = "impulse" THEN 1
    ELSE (((t * t) \div signal.a + t) % 5) - 2

\* An impulse response of the given length, all taps different
ImpulseResponse(length) == [k \in 1..length |-> IF k % 2 = 0 THEN k ELSE -k]

\* Reverb::new
InitReverb(lengths, signals) ==
    \E length \in lengths : \E signal \in signals :
        /\ reverb = NewReverb(ImpulseResponse(length))
        /\ convolution = [ir |-> ImpulseResponse(length), signal |-> signal,
                          calls |-> 0, result |-> 0,
                          evaluated |-> {},
                          evaluations |-> [n \in DOMAIN reverb.blocks |-> 0],
                          farthest |-> 0]

\* The largest of a set of numbers
Max(numbers) == CHOOSE m \in numbers : \A n \in numbers : n <= m

\* A caller calls process() with the next sample of the signal.  Beside the
\* Reverb are kept the blocks evaluated in the call (lines 103-105), the
\* number of evaluations of each block so far, and how far ahead of
\* position the call has written to the output ring (lines 97-98, 131-132)
Process ==
    /\ LET out == process(reverb, Signal(convolution.signal, convolution.calls))
           evaluated == {n \in DOMAIN reverb.blocks :
                            is_block_step(reverb.position,
                                          reverb.blocks[n].width \div 2)}
       IN  /\ reverb' = out.reverb
           /\ convolution' =
                [convolution EXCEPT
                    !.calls = @ + 1,
                    !.result = out.result,
                    !.evaluated = evaluated,
                    !.evaluations = [n \in DOMAIN @ |->
                                        IF n \in evaluated THEN @[n] + 1 ELSE @[n]],
                    !.farthest = Max({Len(reverb.ir) - 1} \cup
                                     {reverb.blocks[n].width : n \in evaluated})]
    /\ UNCHANGED <<director_vars, resampler_vars, random_vars,
                   plugin_vars, instrument_vars>>

\* Random::new: any seed
InitRandom(seeds) ==
    /\ \E seed \in seeds : random = [i |-> seed]
    /\ drawn = [calls |-> 0, call |-> "new", result |-> U32(0)]

\* A caller calls get_int()
GetInt ==
    /\ LET out == get_int(random)
       IN  /\ random' = out.random
           /\ drawn' = [calls |-> drawn.calls + 1, call |-> "get_int",
                        result |-> out.result]
    /\ UNCHANGED <<director_vars, resampler_vars, reverb_vars,
                   plugin_vars, instrument_vars>>

\* A caller calls get_uniform()
GetUniform ==
    /\ LET out == get_uniform(random)
       IN  /\ random' = out.random
           /\ drawn' = [calls |-> drawn.calls + 1, call |-> "get_uniform",
                        result |-> out.result]
    /\ UNCHANGED <<director_vars, resampler_vars, reverb_vars,
                   plugin_vars, instrument_vars>>

-----------------------------------------------------------------------------
(* Specifications *)

InitDirector(types, counts) ==
    /\ \E t \in types : \E c \in counts : director = NewDirector(t, c)
    /\ queue = <<>>
    /\ pc = "idle"
    /\ received = None
    /\ sent = 0
    /\ purged = <<>>
    /\ driven = FALSE
    /\ ever_driven = FALSE
    /\ calls_since_volume = HoldSteps
    /\ quiet_run = 0
    /\ applied = <<>>

NoResampler == resampler = None /\ resampling = None

NoReverb == reverb = None /\ convolution = None
NoRandom == random = None /\ drawn = None
NoPlugin == plugin = None /\ processed = None
NoInstrument == voice = None /\ playing = None

NoUtilities == NoResampler /\ NoReverb /\ NoRandom /\ NoPlugin /\ NoInstrument

InitWith(types, counts) ==
    /\ InitDirector(types, counts)
    /\ evaluation = None
    /\ NoUtilities

(* Spec: notes and the message queue.  A violin section of one or two      *)
(* instruments; producers send right before a drain call, right after one, *)
(* and one call before the next.                                           *)

SendPhases == {0, 1, DrainInterval - 1}

Notes == {54, 69, 81, 104}

Messages ==
    {NoteOn(n) : n \in Notes}
    \cup {NoteOff, SetAttackRate(100), SetReleaseRate(100), SetPitchBend(2),
          Reinitialize("Cello", 2)}

Init == InitWith({"Violin"}, {1, 2})

Next ==
    \/ /\ sent < MaxSent
       /\ director.step % DrainInterval \in SendPhases
       /\ \E m \in Messages : Send(m)
    \/ director.step < MaxStep /\ ProcessMessage
    \/ director.step < MaxStep /\ GenerateAfterDrain(PeakLoud(director.step + 1), AnyBoundary(director))
    \/ director.step < MaxStep /\ Generate(PeakLoud(director.step + 1), AnyBoundary(director))

Spec == Init /\ [][Next]_vars

(* SpecLayout: the ensemble and its layout.  Producers send right before a *)
(* drain call; the run is long enough for a note to sound before the        *)
(* ensemble is rebuilt.                                                     *)

LayoutMaxStep == 410

LayoutMessages ==
    {Reinitialize(t, c) : t \in InstrumentTypes, c \in {1, 2, MaxCount}}
    \cup {SetMaxInstrumentDelay(m) : m \in {0, 401}}
    \cup {SetStereoWidth(w) : w \in {0, 70}}
    \cup {NoteOn(69)}

NextLayout ==
    \/ /\ sent < MaxSent
       /\ director.step % DrainInterval = 0
       /\ pc = "idle"
       /\ \E m \in LayoutMessages : Send(m)
    \/ director.step < LayoutMaxStep /\ ProcessMessage
    \/ director.step < LayoutMaxStep /\ GenerateAfterDrain(NeverLoud(director.step + 1), AllBoundary(director))
    \/ director.step < LayoutMaxStep /\ Generate(NeverLoud(director.step + 1), AllBoundary(director))

SpecLayout == Init /\ [][NextLayout]_vars

(* SpecSched: the transition schedule of an ensemble of three.  Producers  *)
(* send right before the drain calls of steps 0 and 800; the run reaches    *)
(* the purge of a transition of 1000 steps under a max delay of 400.        *)

SchedMaxStep == 1410
SchedMaxSent == 3
SchedSendSteps == {0, 800}

SchedMessages ==
    {SetAttackRate(100), NoteOn(69), NoteOff,
     SetMaxInstrumentDelay(0), SetMaxInstrumentDelay(400),
     Reinitialize("Viola", 2)}

InitSched == InitWith({"Violin"}, {MaxCount})

NextSched ==
    \/ /\ sent < SchedMaxSent
       /\ director.step \in SchedSendSteps
       /\ pc = "idle"
       /\ \E m \in SchedMessages : Send(m)
    \/ director.step < SchedMaxStep /\ ProcessMessage
    \/ director.step < SchedMaxStep /\ GenerateAfterDrain(NeverLoud(director.step + 1), AllBoundary(director))
    \/ director.step < SchedMaxStep /\ Generate(NeverLoud(director.step + 1), AllBoundary(director))

SpecSched == InitSched /\ [][NextSched]_vars

(* SpecGate: the silence gate of a single violin.  Producers send right     *)
(* before the drain calls of steps 0 and 400; the run is long enough for a  *)
(* note to be released and for the hold of 10000 calls to run out.          *)

GateMaxStep == 12800
GateSendSteps == {0, 400}

GateMessages == {NoteOn(69), NoteOff}

InitGate == InitWith({"Violin"}, {1})

NextGate ==
    \/ /\ sent < MaxSent
       /\ director.step \in GateSendSteps
       /\ pc = "idle"
       /\ \E m \in GateMessages : Send(m)
    \/ director.step < GateMaxStep /\ ProcessMessage
    \/ director.step < GateMaxStep /\ GenerateAfterDrain(TailLoud(director), AllBoundary(director))
    \/ director.step < GateMaxStep /\ Generate(TailLoud(director), AllBoundary(director))

SpecGate == InitGate /\ [][NextGate]_vars

(* SpecProducers: the process callback and the editor send concurrently    *)
(* with the render thread, at any point of a generate() call near a drain.  *)

ProdMaxStep == 210
ProdMaxSent == 3

ProdMessages ==
    {NoteOn(69), NoteOff, SetAttackRate(100),
     Reinitialize("Cello", 2), Reinitialize("Viola", 1)}

InitProducers == InitWith({"Violin"}, {1})

NextProducers ==
    \/ /\ sent < ProdMaxSent
       /\ director.step % DrainInterval \in SendPhases
       /\ \E m \in ProdMessages : Send(m)
    \/ director.step < ProdMaxStep /\ ProcessMessage
    \/ director.step < ProdMaxStep
            /\ GenerateAfterDrain(NeverLoud(director.step + 1), AllBoundary(director))
    \/ director.step < ProdMaxStep
            /\ Generate(NeverLoud(director.step + 1), AllBoundary(director))

SpecProducers == InitProducers /\ [][NextProducers]_vars

(* SpecResampler: a caller makes any sequence of calls on a Resampler,     *)
(* legal or not, for each of the output rates.                              *)

MaxInputs == 5
InputValues == {-1, 0, 2}
ResamplerRates == {24000, 44100, 48000, 96000, 192000}

InitResampling ==
    /\ InitDirector({"Violin"}, {1})
    /\ evaluation = None
    /\ InitResampler(ResamplerRates)
    /\ NoReverb
    /\ NoRandom
    /\ NoPlugin
    /\ NoInstrument

NextResampler ==
    \/ GetOutput
    \/ resampling.inputs < MaxInputs /\ \E y \in InputValues : AddInput(y)

SpecResampler == InitResampling /\ [][NextResampler]_vars

(* SpecCycle: the loop of test_for_output_rate: before each of the          *)
(* SAMPLE_RATE inputs of one cycle, every output that is ready is taken.    *)

CycleRates == {44100, 96000, 192000}
CycleInput(i) == i % 3

InitCycle ==
    /\ InitDirector({"Violin"}, {1})
    /\ evaluation = None
    /\ InitResampler(CycleRates)
    /\ NoReverb
    /\ NoRandom
    /\ NoPlugin
    /\ NoInstrument

NextCycle ==
    \/ has_output(resampler) /\ GetOutput
    \/ /\ ~has_output(resampler)
       /\ resampling.inputs < SAMPLE_RATE
       /\ AddInput(CycleInput(resampling.inputs))

SpecCycle == InitCycle /\ [][NextCycle]_vars

(* SpecReverb: a Reverb built from an impulse response is fed a signal,     *)
(* one process() call per sample, past the end of the signal and past the   *)
(* point where the ring position wraps around.                              *)

ReverbCalls == 360
ReverbLengths == {0, 1, 3, 16, 17, 20, 33, 40, 70}
ReverbSignals ==
    {[kind |-> "impulse", a |-> 1, length |-> 1],
     [kind |-> "samples", a |-> 3, length |-> 280],
     [kind |-> "samples", a |-> 7, length |-> 200]}

InitReverberation ==
    /\ InitDirector({"Violin"}, {1})
    /\ evaluation = None
    /\ NoResampler
    /\ NoRandom
    /\ NoPlugin
    /\ NoInstrument
    /\ InitReverb(ReverbLengths, ReverbSignals)

NextReverb == convolution.calls < ReverbCalls /\ Process

SpecReverb == InitReverberation /\ [][NextReverb]_vars

(* SpecRandom: a Random is seeded and values are drawn from it.  The seeds  *)
(* are ordinary ones and the states from which the next integer is one of   *)
(* the largest.                                                             *)

RandomCalls == 20
RandomSeeds ==
    {U32(0), U32(1), U32(12345),
     [hi |-> 9973, lo |-> 46880],
     [hi |-> 46505, lo |-> 44389],
     [hi |-> 46793, lo |-> 21664]}

InitRandomness ==
    /\ InitDirector({"Violin"}, {1})
    /\ evaluation = None
    /\ NoResampler
    /\ NoReverb
    /\ NoPlugin
    /\ NoInstrument
    /\ InitRandom(RandomSeeds)

NextRandom ==
    \/ drawn.calls < RandomCalls /\ GetInt
    \/ drawn.calls < RandomCalls /\ GetUniform

SpecRandom == InitRandomness /\ [][NextRandom]_vars

(* SpecEval: one Transition evaluated for one instrument, as the loop of    *)
(* update_transitions does, at delayed times j that grow from before its    *)
(* start to beyond its end.                                                 *)

EvalLead == 2
EvalStrides == {1, DrainInterval}
EvalValues == {0, 3, EnvScale \div 2, EnvScale}
EvalDurations == {RampTime(AttackRange, 100), RampTime(ReleaseRange, 50)}

EvalTransitions ==
    {[start |-> DrainInterval, end |-> DrainInterval + duration,
      data |-> [kind |-> "EnvelopeChange", start_value |-> a, end_value |-> b]] :
        duration \in EvalDurations, a \in EvalValues, b \in EvalValues}

InitEval ==
    /\ InitDirector({"Violin"}, {1})
    /\ NoUtilities
    /\ \E t \in EvalTransitions : \E value \in {t.data.start_value, 7} :
            evaluation = [transition |-> t, j |-> t.start - EvalLead,
                           value |-> value,
                           before_j |-> t.start - EvalLead, before |-> value]

\* Director::update_transitions, lines 359-366, for one instrument whose
\* delayed time has advanced by stride
Evaluate(stride) ==
    /\ evaluation.j <= evaluation.transition.end + EvalLead
    /\ evaluation' =
        [evaluation EXCEPT
            !.j = evaluation.j + stride,
            !.value = apply_transition(evaluation.transition,
                                       evaluation.j + stride, evaluation.value),
            !.before_j = evaluation.j,
            !.before = evaluation.value]
    /\ UNCHANGED <<director, queue, pc, received, sent, purged, driven, ever_driven,
                   calls_since_volume, quiet_run, applied, utilities>>

NextEval == \E stride \in EvalStrides : Evaluate(stride)

SpecEval == InitEval /\ [][NextEval]_vars

-----------------------------------------------------------------------------
(* Properties of the message queue and of note handling, under Spec *)

\* The first drain step at or after the step at which a Message was sent
NextDrainStep(sent_at) == ((sent_at + 199) \div 200) * 200

\* Whether the step from the current state to the next receives a Message
Receives == queue # <<>> /\ queue' = Tail(queue)

\* Whether the step from the current state to the next ends a generate() call
EndsCall == director'.step = director.step + 1

\* C1: generate() consumes Messages only in the calls whose pre-increment
\* step counter is a multiple of 200, takes them in FIFO order, and does not
\* go on to the transitions (and the end of the call) before the queue is
\* empty; a call at any other step leaves the queue alone.  So a Message
\* never waits through more than 199 calls: it is applied no later than the
\* 200th call after it was sent.
C1_DrainCadence ==
    /\ [][/\ Len(queue') < Len(queue) =>
                /\ director.step % 200 = 0
                /\ queue' = Tail(queue)
                /\ received'.message = Head(queue).message
                /\ received'.received_at = director.step
                /\ director'.step = director.step
          /\ EndsCall /\ director.step % 200 = 0 => queue = <<>> /\ queue' = <<>>
          /\ EndsCall /\ director.step % 200 # 0 => queue' = queue]_vars
    /\ [](/\ \A k \in 1..Len(queue) : director.step - queue[k].sent_at <= 199
          /\ received # None => received.received_at - received.sent_at <= 199)

\* A Message sent right after the drain call of step 0 was applied in the
\* call of step 200, the 200th call after it was sent, with a later Message
\* still queued behind it.
C1_Witness ==
    /\ received # None
    /\ received.sent_at = 1
    /\ received.received_at = 200
    /\ queue # <<>>
    /\ pc = "messages"

EnvelopeTransitions(d) ==
    {k \in 1..Len(d.transitions) : d.transitions[k].data.kind = "EnvelopeChange"}

\* C2: in every reachable state the transition list holds at most one
\* EnvelopeChange transition.
C2_OneEnvelopeTransition == Cardinality(EnvelopeTransitions(director)) <= 1

\* A NoteOff was applied at step 200 while the EnvelopeChange of a NoteOn(69)
\* applied before it was still in the list; one EnvelopeChange is left.
C2_Witness ==
    /\ received # None
    /\ received.message = NoteOff
    /\ received.received_at = 200
    /\ director.instruments[1].last_note = 69
    /\ Len(director.transitions) = 1
    /\ director.transitions[1].start = 200
    /\ director.transitions[1].data.end_value = 0

\* C3: applying a NoteOn whose note index is below lowest_note or above
\* highest_note changes nothing in the Director: no frequency, envelope or
\* transition, no Instrument's new-note flag or last_note, no hold counter.
C3_OutOfRangeNoteIgnored ==
    [][(/\ Receives
        /\ Head(queue).message.type = "NoteOn"
        /\ \/ Head(queue).message.note_index < director.lowest_note
           \/ Head(queue).message.note_index > director.highest_note)
       => director' = director]_vars

\* A NoteOn above the range was applied to a Director that has a transition
\* in progress.
C3_Witness ==
    /\ received # None
    /\ received.message.type = "NoteOn"
    /\ received.message.note_index > director.highest_note
    /\ director.transitions # <<>>
    /\ pc = "messages"

\* 440*2^((note-69)/12) for the notes of the model, rounded to centihertz
ExpectedFrequency(note_index) ==
    CASE note_index = 69 -> 44000
      [] note_index = 81 -> 88000
      [] note_index = 54 -> 18500

\* Equal up to the resolution of the fixed-point frequencies (0.05 Hz)
Close(x, y) == x - y <= 5 /\ y - x <= 5

\* The transitions other than EnvelopeChange, in order
OtherTransitions(d) ==
    SelectSeq(d.transitions, LAMBDA t : t.data.kind # "EnvelopeChange")

\* C6: an in-range NoteOn applied at step s sets every base frequency to
\* 440*2^((note-69)/12), replaces the pending EnvelopeChange by one from s to
\* s + 1000 + trunc(20000*(1-attack_rate)) toward 1.0 and signals the note to
\* every Instrument; a NoteOff applied at step s replaces it by one from s to
\* s + 1000 + trunc(5000*(1-release_rate)) toward 0.0 and changes no
\* frequency.  The rate is the one stored when the Message is applied.
C6_NoteOnNoteOff ==
    [][/\ (/\ Receives
           /\ Head(queue).message.type = "NoteOn"
           /\ Head(queue).message.note_index >= director.lowest_note
           /\ Head(queue).message.note_index <= director.highest_note)
          => LET note == Head(queue).message.note_index
                 n == Len(director.instruments)
             IN  /\ \A i \in 1..n :
                        /\ Close(director'.frequency[i], ExpectedFrequency(note))
                        /\ director'.frequency[i] = director'.frequency[1]
                        /\ director'.instruments[i].frequency =
                              (director'.frequency[i] * director.bend) \div 1000
                        /\ director'.instruments[i].last_note = note
                        /\ director'.instruments[i].start_new_note =
                              (\/ director.instruments[i].start_new_note
                               \/ director.instruments[i].last_note # note)
                 /\ director'.transitions = OtherTransitions(director) \o
                        <<[start |-> director.step,
                           end |-> director.step + 1000
                                    + (20000 * (100 - director.attack_rate)) \div 100,
                           data |-> [kind |-> "EnvelopeChange",
                                     start_value |-> director.envelope[1],
                                     end_value |-> 1000]]>>
       /\ (Receives /\ Head(queue).message.type = "NoteOff")
          => /\ director'.frequency = director.frequency
             /\ director'.instruments = director.instruments
             /\ director'.transitions = OtherTransitions(director) \o
                    <<[start |-> director.step,
                       end |-> director.step + 1000
                                + (5000 * (100 - director.release_rate)) \div 100,
                       data |-> [kind |-> "EnvelopeChange",
                                 start_value |-> director.envelope[1],
                                 end_value |-> 0]]>>]_vars

\* A NoteOn(81) was applied at step 200, after the attack rate had been set
\* to 1.0, and its EnvelopeChange runs from 200 to 1200.
C6_Witness ==
    /\ received # None
    /\ received.message = NoteOn(81)
    /\ received.received_at = 200
    /\ director.attack_rate = 100
    /\ director.frequency[1] = 88000
    /\ Len(director.transitions) = 1
    /\ director.transitions[1].end = 1200

\* C10, as claimed: a NoteOn, NoteOff or SetPitchBend sent before a
\* generate() call takes effect in that very call, so no generate() call
\* ends with such a Message, sent before it began, still in the queue.
C10_PerSampleNotes ==
    pc = "idle" =>
        \A k \in 1..Len(queue) :
            queue[k].message.type \in NoteKinds => director.step <= queue[k].sent_at

\* C10, amended: a NoteOn, NoteOff or SetPitchBend goes through the queue
\* like every other Message.  It is applied in the first generate() call, at
\* or after the moment it was sent, whose pre-increment step counter is a
\* multiple of 200, which can be the 200th call after it was sent, and in no
\* call before that one.
C10_NotesAtDrainStep ==
    /\ (received # None /\ received.message.type \in NoteKinds)
            => received.received_at = NextDrainStep(received.sent_at)
    /\ \A k \in 1..Len(queue) :
            queue[k].message.type \in NoteKinds =>
                IF pc = "idle"
                THEN director.step <= NextDrainStep(queue[k].sent_at)
                ELSE director.step = NextDrainStep(queue[k].sent_at)

\* A NoteOn sent before the second generate() call was applied in the call
\* of step 200.
C10_Witness ==
    /\ received # None
    /\ received.message = NoteOn(69)
    /\ received.sent_at = 1
    /\ received.received_at = 200
    /\ director.frequency[1] = 44000
    /\ director.transitions # <<>>

-----------------------------------------------------------------------------
(* Properties of the ensemble and its layout, under SpecLayout *)

ExpectedBodyResonance(instrument_type) ==
    CASE instrument_type = "Violin" -> 18
      [] instrument_type = "Viola"  -> 18
      [] instrument_type = "Cello"  -> 35
      [] instrument_type = "Bass"   -> 50

\* C7: applying Reinitialize{instrument_type, count}, count >= 1, to any
\* Director leaves exactly count Instruments; pan, delay, envelope and
\* frequency arrays of length count; every envelope 0 and every base
\* frequency 440; no transition; the body resonance of the type (0.18
\* violin and viola, 0.35 cello, 0.5 bass); one Reverb if count = 1, else two.
C7_Reinitialize ==
    [][(Receives /\ Head(queue).message.type = "Reinitialize"
                 /\ Head(queue).message.instrument_count >= 1)
       => LET count == Head(queue).message.instrument_count
              d == director'
          IN  /\ Len(d.instruments) = count
              /\ Len(d.instrument_pan) = count
              /\ Len(d.instrument_delays) = count
              /\ Len(d.envelope) = count
              /\ Len(d.frequency) = count
              /\ \A i \in 1..count : d.envelope[i] = 0 /\ d.frequency[i] = 44000
              /\ d.transitions = <<>>
              /\ d.body_resonance =
                    ExpectedBodyResonance(Head(queue).message.instrument_type)
              /\ d.reverb = IF count = 1 THEN 1 ELSE 2]_vars

\* Reinitialize{Cello, 3} was applied at step 400 to a Director whose note
\* had been sounding (its envelope had left 0, its EnvelopeChange was in
\* progress).
C7_Witness ==
    /\ received # None
    /\ received.message = Reinitialize("Cello", 3)
    /\ received.received_at = 400
    /\ ever_driven
    /\ Len(director.instruments) = 3
    /\ director.body_resonance = 35
    /\ director.transitions = <<>>

\* C8: in every reachable state the layout matches the stored settings.  For
\* n > 1 instruments and max delay M >= 0, delay[i] is
\* floor(M * ((i + floor(n/2)) mod n) / (n-1)), so every delay is in [0, M],
\* some delay is 0 and some is M, and the pan angles are symmetric about the
\* center: pan[i] + pan[n-1-i] = pi/2.  For n = 1 the delay is 0 and the pan
\* angle is pi/4.
C8_Layout ==
    LET n == Len(director.instruments)
        M == director.max_instrument_delay
        delay == director.instrument_delays
        pan == director.instrument_pan
    IN  /\ (n > 1 /\ M >= 0) =>
              /\ \A i \in 0..(n - 1) :
                    /\ delay[i + 1] = (M * ((i + (n \div 2)) % n)) \div (n - 1)
                    /\ delay[i + 1] >= 0
                    /\ delay[i + 1] <= M
              /\ \E i \in 1..n : delay[i] = 0
              /\ \E i \in 1..n : delay[i] = M
        /\ n > 1 => \A i \in 0..(n - 1) : pan[i + 1] + pan[n - i] = 2 * PanUnit
        /\ n = 1 => delay[1] = 0 /\ pan[1] = PanUnit

\* An ensemble of three with the delay set to 401 and a stereo width that is
\* not the one of construction: the delays are 200, 401 and 0, the outer pan
\* angles differ.
C8_Witness ==
    /\ Len(director.instruments) = 3
    /\ director.max_instrument_delay = 401
    /\ director.instrument_delays = <<200, 401, 0>>
    /\ director.instrument_pan[1] < director.instrument_pan[3]
    /\ received # None
    /\ received.message.type = "SetMaxInstrumentDelay"

-----------------------------------------------------------------------------
(* Properties of the transition schedule, under SpecSched and SpecEval *)

\* C4: a transition is purged only when it has been applied in full to every
\* instrument: right after the generate() call whose update_transitions
\* purged an EnvelopeChange, and until the next drain call, envelope[i] is
\* the end value of that transition for every instrument i, the most delayed
\* one included, whatever SetMaxInstrumentDelay (>= 0) was applied meanwhile.
C4_PurgedWhenComplete ==
    (pc = "idle" /\ director.step % 200 # 0) =>
        \A k \in 1..Len(purged) :
            purged[k].data.kind = "EnvelopeChange" =>
                \A i \in 1..Len(director.envelope) :
                    director.envelope[i] = purged[k].data.end_value

\* The attack of 1000 steps scheduled at step 0 was purged in the call of
\* step 1400, after the max delay was changed from 2000 to 400 at step 800:
\* the delays are 200, 400 and 0 and every envelope is 1.0.
C4_Witness ==
    /\ purged # <<>>
    /\ purged[1].start = 0
    /\ purged[1].end = 1000
    /\ director.step = 1401
    /\ received.message = SetMaxInstrumentDelay(400)
    /\ received.received_at = 800
    /\ director.instrument_delays = <<200, 400, 0>>
    /\ \A i \in 1..3 : director.envelope[i] = 1000

\* C5: a transition (start, end, a -> b) evaluated at the delayed time j
\* leaves the value alone when j < start, sets a when j = start, sets a
\* value between a and b when start < j < end, one that never moves back
\* toward a as j grows, and sets exactly b when j >= end.
C5_TransitionValue ==
    evaluation # None =>
        LET t == evaluation.transition
            a == t.data.start_value
            b == t.data.end_value
            j == evaluation.j
            v == evaluation.value
        IN  /\ j < t.start => v = evaluation.before
            /\ j = t.start => v = a
            /\ (t.start < j /\ j < t.end) =>
                    /\ (a <= b => a <= v /\ v <= b)
                    /\ (b <= a => b <= v /\ v <= a)
            /\ j >= t.end => v = b
            /\ (evaluation.before_j >= t.start /\ j > evaluation.before_j) =>
                    /\ (b >= a => v >= evaluation.before)
                    /\ (b <= a => v <= evaluation.before)

\* A rising transition in mid-course: the value is strictly between a and b
\* and above the value of the evaluation before.
C5_Witness ==
    /\ evaluation # None
    /\ evaluation.transition.data.start_value = 3
    /\ evaluation.transition.data.end_value = 1000
    /\ evaluation.j > evaluation.transition.start
    /\ evaluation.j < evaluation.transition.end
    /\ evaluation.before_j > evaluation.transition.start
    /\ evaluation.value > evaluation.before
    /\ evaluation.value < 1000

-----------------------------------------------------------------------------
(* Properties of the silence gate, under SpecGate *)

\* C9: steps_until_off stays in [0, 10000]; a generate() call returns (0,0)
\* without driving the Instruments and the Reverb only when instrument 0's
\* volume is 0 and steps_until_off is 0; and, once a sample has been driven,
\* only when instrument 0's volume has not been above 0 in this call or in
\* the 9999 calls before it, and the 100 samples driven last were all within
\* the 0.001 threshold.
C9_SilenceGate ==
    /\ director.steps_until_off >= 0
    /\ director.steps_until_off <= 10000
    /\ (pc = "idle" /\ director.step > 0 /\ ~driven) =>
            /\ director.instruments[1].volume = 0
            /\ director.steps_until_off = 0
            /\ ever_driven => calls_since_volume >= 10000 /\ quiet_run >= 100

\* The gate has closed after a note: the call returned (0,0), the 10000th
\* call after the last one that saw a volume above 0.
C9_Witness ==
    /\ pc = "idle"
    /\ ever_driven
    /\ ~driven
    /\ calls_since_volume = 10000
    /\ quiet_run = 100
    /\ director.steps_until_off = 0
    /\ director.instruments[1].last_note = 69

-----------------------------------------------------------------------------
(* Properties of the life of a Transition, under SpecSched *)

\* Whether transition t is in the list of Director d
Scheduled(d, t) == \E k \in 1..Len(d.transitions) : d.transitions[k] = t

\* The step purges t after every instrument has evaluated it at or past its end
PurgesComplete(t) ==
    /\ EndsCall
    /\ director.step % 200 = 0
    /\ \A i \in 1..Len(director.instrument_delays) :
            director.step - director.instrument_delays[i] >= t.end

\* The step applies a NoteOn or NoteOff that schedules a new EnvelopeChange
\* in the place of the EnvelopeChange t
Supersedes(t) ==
    /\ Receives
    /\ Head(queue).message.type \in {"NoteOn", "NoteOff"}
    /\ t.data.kind = "EnvelopeChange"
    /\ director'.transitions # <<>>
    /\ LET new == director'.transitions[Len(director'.transitions)]
       IN  /\ new.data.kind = "EnvelopeChange"
           /\ new.start = director.step
           /\ new.data.end_value = IF Head(queue).message.type = "NoteOn" THEN 1000 ELSE 0

\* C11, as claimed: a scheduled Transition stays in the list, with the same
\* start, end and values, unless it is purged after it has run to completion
\* for every instrument or a new transition of the same kind supersedes it.
C11_NoCancellation ==
    [][\A k \in 1..Len(director.transitions) :
            LET t == director.transitions[k]
            IN  \/ Scheduled(director', t)
                \/ PurgesComplete(t)
                \/ Supersedes(t)]_vars

\* C11, amended: a scheduled Transition stays in the list, with the same
\* start, end and values, unless it is purged after it has run to completion
\* for every instrument, or a new transition of the same kind supersedes it,
\* or a Reinitialize message rebuilds the ensemble, which empties the list.
C11_NoCancellationButReinitialize ==
    [][\A k \in 1..Len(director.transitions) :
            LET t == director.transitions[k]
            IN  \/ Scheduled(director', t)
                \/ PurgesComplete(t)
                \/ Supersedes(t)
                \/ /\ Receives
                   /\ Head(queue).message.type = "Reinitialize"
                   /\ director'.transitions = <<>>]_vars

\* A NoteOff applied at step 800 has superseded the attack scheduled at step
\* 0, which was under way: the release starts from an envelope above 0.
C11_Witness ==
    /\ received # None
    /\ received.message = NoteOff
    /\ received.received_at = 800
    /\ pc = "messages"
    /\ Len(director.transitions) = 1
    /\ director.transitions[1].start = 800
    /\ director.transitions[1].data.start_value > 0
    /\ director.transitions[1].data.end_value = 0

\* C20, as claimed: at an evaluation of the transitions, a transition is
\* kept whenever step <= end + max_instrument_delay, and purged only once
\* step > end + max_instrument_delay.
C20_PurgedAfter ==
    [][(EndsCall /\ director.step % 200 = 0) =>
        \A k \in 1..Len(director.transitions) :
            LET t == director.transitions[k]
            IN  /\ director.step <= t.end + director.max_instrument_delay
                    => Scheduled(director', t)
                /\ ~Scheduled(director', t)
                    => director.step > t.end + director.max_instrument_delay]_vars

\* C20, amended: at an evaluation of the transitions, a transition is kept
\* whenever step < end + max_instrument_delay, and purged once
\* step >= end + max_instrument_delay.
C20_PurgedFrom ==
    [][(EndsCall /\ director.step % 200 = 0) =>
        \A k \in 1..Len(director.transitions) :
            LET t == director.transitions[k]
            IN  Scheduled(director', t)
                    <=> director.step < t.end + director.max_instrument_delay]_vars

\* The attack that ends at step 1000 was purged by the evaluation of step
\* 1400, under a max delay of 400: at step = end + max_instrument_delay.
C20_Witness ==
    /\ pc = "idle"
    /\ director.step = 1401
    /\ director.max_instrument_delay = 400
    /\ Len(purged) = 1
    /\ purged[1].end + director.max_instrument_delay = director.step - 1
    /\ director.transitions = <<>>

-----------------------------------------------------------------------------
(* Properties of the hand-off between producers and render thread, under    *)
(* SpecProducers                                                            *)

\* The producer and send number of every Message sent so far: the applied
\* ones in the order applied, then the queued ones
Handled ==
    applied \o [k \in 1..Len(queue) |->
                    [producer |-> queue[k].producer, id |-> queue[k].id]]

\* C12: whatever the interleaving of the producers' sends with the render
\* thread, every Message sent is applied or still queued exactly once
\* (never lost, never duplicated); Messages of the same producer are applied
\* in the order sent; a Message is applied only by a turn of the render
\* thread's drain loop, in a call whose pre-increment step is a multiple of
\* 200; and a send changes nothing in the Director, which changes only in
\* steps of the render thread.
C12_ExactlyOnceInOrder ==
    /\ [](/\ Len(Handled) = sent
          /\ \A id \in 1..sent :
                Cardinality({k \in 1..Len(Handled) : Handled[k].id = id}) = 1
          /\ \A a \in 1..Len(applied) : \A b \in 1..Len(applied) :
                (a < b /\ applied[a].producer = applied[b].producer)
                    => applied[a].id < applied[b].id)
    /\ [][/\ applied' # applied =>
                /\ Receives
                /\ director.step % 200 = 0
                /\ applied' = Append(applied, [producer |-> Head(queue).producer,
                                               id |-> Head(queue).id])
          /\ Len(queue') > Len(queue) =>
                /\ director' = director
                /\ applied' = applied
                /\ sent' = sent + 1
          /\ director' # director => (Receives \/ EndsCall)]_vars

\* Three Messages were applied in the drain of step 200: one of the process
\* callback, then the editor's Reinitialize, then another of the process
\* callback, sent while the drain loop was already running.
C12_Witness ==
    /\ Len(applied) = 3
    /\ applied[1].producer = "process"
    /\ applied[2].producer = "editor"
    /\ applied[3].producer = "process"
    /\ received.received_at = 200
    /\ received.sent_at = 200
    /\ queue = <<>>
    /\ director.instrument_type = "Cello"

-----------------------------------------------------------------------------
(* Properties of the Resampler, under SpecResampler and SpecCycle *)

\* Whether output is ready before the step
HadOutput == resampler.next_output_time <= resampler.x2

\* Whether the step is a call of the named method
Calls(method) ==
    /\ resampling'.calls = resampling.calls + 1
    /\ resampling'.call = method

\* C13: get_output panics whenever has_output() is false and add_input
\* panics whenever has_output() is true, and the panic leaves x2, y1, y2 and
\* next_output_time as they were; when the precondition holds neither panics.
C13_ProtocolViolationsPanic ==
    [][/\ Calls("get_output") =>
            /\ (resampling'.panic # "none") <=> ~HadOutput
            /\ ~HadOutput =>
                /\ resampling'.panic = "No output ready"
                /\ ~resampling'.returned
                /\ resampler' = resampler
       /\ Calls("add_input") =>
            /\ (resampling'.panic # "none") <=> HadOutput
            /\ HadOutput =>
                /\ resampling'.panic = "Cannot add input when output is ready"
                /\ resampler' = resampler]_vars

\* An add_input made while an output was waiting has panicked, after inputs
\* and outputs that followed the protocol.
C13_Witness ==
    /\ resampling # None
    /\ resampling.call = "add_input"
    /\ resampling.panic = "Cannot add input when output is ready"
    /\ resampling.inputs >= 2
    /\ resampling.outputs >= 2
    /\ resampler.next_output_time <= resampler.x2

\* C14, as claimed: get_output called on a Resampler before any add_input
\* fails with an assertion and returns no value, the first call on a freshly
\* constructed Resampler included.
C14_FreshGetOutputFails ==
    (resampling # None /\ resampling.call = "get_output" /\ resampling.inputs = 0)
        => (resampling.panic = "No output ready" /\ ~resampling.returned)

\* C14, amended: get_output fails with an assertion, and returns no value,
\* whenever has_output() is false.  A freshly constructed Resampler has
\* output ready (next_output_time = x2 = 0): the first get_output, before
\* any add_input, returns 0.0, and it is the second get_output before any
\* add_input that fails.
C14_GetOutputFailsWithoutOutput ==
    /\ [][(Calls("get_output") /\ ~HadOutput) =>
            (resampling'.panic = "No output ready" /\ ~resampling'.returned)]_vars
    /\ []((resampling # None /\ resampling.call = "get_output"
                             /\ resampling.inputs = 0) =>
            /\ resampling.calls = 1 =>
                    /\ resampling.panic = "none"
                    /\ resampling.returned
                    /\ resampling.result = 0
            /\ resampling.calls = 2 =>
                    /\ resampling.panic = "No output ready"
                    /\ ~resampling.returned)

\* The second get_output on a fresh Resampler has panicked; the first one
\* returned a value.
C14_Witness ==
    /\ resampling # None
    /\ resampling.calls = 2
    /\ resampling.call = "get_output"
    /\ resampling.inputs = 0
    /\ resampling.outputs = 1
    /\ resampling.panic = "No output ready"

RECURSIVE Gcd(_, _)
Gcd(a, b) == IF b = 0 THEN a ELSE Gcd(b, a % b)

\* R/S in lowest terms, for the output rate R of the Resampler and the
\* native rate S = 48000
RateNum == resampler.sample_rate \div Gcd(resampler.sample_rate, 48000)
RateDen == 48000 \div Gcd(resampler.sample_rate, 48000)

\* C15, as claimed: when every ready output is taken before each add_input,
\* the number of outputs taken after N inputs differs from N*R/S by at most
\* 1, for every output rate R.
C15_CountWithinOne ==
    (resampling # None /\ resampling.call = "add_input"
                       /\ resampling.panic = "none") =>
        /\ resampling.outputs * RateDen - resampling.inputs * RateNum <= RateDen
        /\ resampling.inputs * RateNum - resampling.outputs * RateDen <= RateDen

\* C15, amended: when every ready output is taken before each add_input,
\* the number of outputs taken after N inputs differs from N*R/S by at most
\* 1 when R <= S; when R > S it is at most N*R/S and falls short of it by at
\* most R/S.  For N = S inputs the count is R +/- 1 for R = 44100, R - 1 for
\* R = 2S and R - 3 for R = 4S.
C15_CountLags ==
    (resampling # None /\ resampling.call = "add_input"
                       /\ resampling.panic = "none") =>
        LET over == resampling.outputs * RateDen - resampling.inputs * RateNum
        IN  /\ RateNum <= RateDen => (over <= RateDen /\ -over <= RateDen)
            /\ RateNum > RateDen => (over <= 0 /\ -over <= RateNum)
            /\ resampling.inputs = 48000 =>
                CASE resampler.sample_rate = 96000 -> resampling.outputs = 95999
                  [] resampler.sample_rate = 192000 -> resampling.outputs = 191997
                  [] OTHER -> /\ resampling.outputs - resampler.sample_rate <= 1
                              /\ resampler.sample_rate - resampling.outputs <= 1

\* A full cycle of 48000 inputs has been added at an output rate of 96000
\* and 95999 outputs were taken.
C15_Witness ==
    /\ resampling # None
    /\ resampling.call = "add_input"
    /\ resampling.inputs = 48000
    /\ resampler.sample_rate = 96000
    /\ resampling.outputs = 95999

\* Whether the input of index j (from 0) is an input added and kept for
\* reference, or one before the first input
Known(j) ==
    \/ j < 0
    \/ (j < resampling.inputs /\ j >= resampling.inputs - Len(resampling.recent))

\* The input of index j; the inputs before the first one are 0
InputAt(j) ==
    IF j < 0 THEN 0
    ELSE resampling.recent[j - (resampling.inputs - Len(resampling.recent)) + 1]

-----------------------------------------------------------------------------
(* Properties of the Reverb, under SpecReverb *)

\* The sum over the taps k, k+1, ... of ir[k] * input[t-k]
RECURSIVE DirectConvolution(_, _, _, _)
DirectConvolution(ir, signal, t, k) ==
    IF k >= Len(ir) THEN 0
    ELSE ir[k + 1] * Signal(signal, t - k) + DirectConvolution(ir, signal, t, k + 1)

\* C17: the t-th value returned by process() is the sum over k of
\* ir[k] * input[t-k], for impulse responses of any length and for every t,
\* after the input has ended and after the ring position has wrapped around
\* too.
C17_EqualsDirectConvolution ==
    (convolution # None /\ convolution.calls >= 1) =>
        convolution.result = DirectConvolution(convolution.ir, convolution.signal,
                                               convolution.calls - 1, 0)

\* With an impulse response of 70 taps (three blocks, rings of 256) the
\* Reverb has returned a nonzero value of the tail, after the 280 samples of
\* the signal ended and after the position wrapped around.
C17_Witness ==
    /\ convolution # None
    /\ Len(convolution.ir) = 70
    /\ Len(reverb.blocks) = 3
    /\ convolution.signal.length = 280
    /\ convolution.calls > 300
    /\ reverb.position = convolution.calls - 256
    /\ convolution.result # 0

\* The smallest power of two that is at least len
SmallestPowerOfTwo(len) ==
    CHOOSE w \in {Pow2(e) : e \in 0..8} :
        /\ w >= len
        /\ \A v \in {Pow2(e) : e \in 0..8} : v >= len => w <= v

\* Tap k (from 0) of the impulse response, padded with zeros
Padded(k) == IF k < Len(convolution.ir) THEN convolution.ir[k + 1] ELSE 0

\* Whether tap k is convolved directly (n = 0) or by block n
Covers(n, k) ==
    IF n = 0 THEN k < Len(reverb.ir)
    ELSE reverb.blocks[n].width \div 2 <= k /\ k < reverb.blocks[n].width

\* C18: with width the smallest power of two >= the length of the impulse
\* response and direct_width = min(width, 16), the blocks have the widths
\* 2*direct_width, 4*direct_width, ..., width (none when width <= 16), the
\* block of width w holds the taps w/2 .. w-1, the direct part holds the taps
\* 0 .. direct_width-1, and every tap in 0 .. width-1 is covered exactly once.
C18_Partition ==
    reverb # None =>
        LET width == SmallestPowerOfTwo(Len(convolution.ir))
            direct_width == IF width <= 16 THEN width ELSE 16
            count == Len(reverb.blocks)
        IN  /\ Len(reverb.ir) = direct_width
            /\ \A k \in 0..(direct_width - 1) : reverb.ir[k + 1] = Padded(k)
            /\ \A n \in 1..count : reverb.blocks[n].width = direct_width * Pow2(n)
            /\ width <= 16 => count = 0
            /\ width > 16 => (count >= 1 /\ reverb.blocks[count].width = width)
            /\ \A n \in 1..count :
                    LET w == reverb.blocks[n].width
                    IN  \A i \in 1..w :
                            reverb.blocks[n].ir[i] =
                                IF i <= w \div 2 THEN Padded(w \div 2 + i - 1) ELSE 0
            /\ \A k \in 0..(width - 1) :
                    Cardinality({n \in 0..count : Covers(n, k)}) = 1

\* A Reverb built from 70 taps, padded to 128, has the three blocks
\* of widths 32, 64 and 128, and is in use.
C18_Witness ==
    /\ reverb # None
    /\ Len(convolution.ir) = 70
    /\ Len(reverb.blocks) = 3
    /\ reverb.blocks[3].width = 128
    /\ reverb.position > 0

-----------------------------------------------------------------------------
(* Properties of Random, under SpecRandom *)

\* C19: get_uniform() returns a value v with 0.0 <= v < 1.0 for every 32 bit
\* value of get_int(), the values closest to 2^32 included.  (The value is
\* its numerator over 2^32, so v < 1.0 is hi < 2^16.)
C19_UniformBelowOne ==
    (drawn # None /\ drawn.call = "get_uniform") =>
        /\ drawn.result.hi >= 0
        /\ drawn.result.lo >= 0
        /\ drawn.result.hi < Half

-----------------------------------------------------------------------------
(* Properties of the Reverb's schedule and rings, under SpecReverb *)

\* The position at which the last process() call was made
PositionBefore ==
    (reverb.position + Size(reverb.output_ring) - 1) % Size(reverb.output_ring)

\* C24: a block of width w is evaluated exactly on the calls where position
\* mod (w/2) = w/2 - 1, once in every w/2 calls; it reads the w/2 most recent
\* inputs, so that every input is read once by every block, and element i of
\* its output is added to the slot that is returned 1 + i calls later.
C24_BlockSchedule ==
    (reverb # None /\ convolution.calls >= 1) =>
        \A n \in DOMAIN reverb.blocks :
            LET w == reverb.blocks[n].width
                h == w \div 2
                t == convolution.calls - 1
                len == Size(reverb.output_ring)
            IN  /\ (n \in convolution.evaluated) <=> (PositionBefore % h = h - 1)
                /\ convolution.evaluations[n] = convolution.calls \div h
                /\ n \in convolution.evaluated =>
                    /\ slice_start(PositionBefore, h) + h - 1 = PositionBefore
                    /\ \A a \in 0..(h - 1) :
                            reverb.input_ring[slice_start(PositionBefore, h) + a]
                                = Signal(convolution.signal, t - h + 1 + a)
                    /\ \A i \in 0..(w - 1) :
                            /\ 1 + i < len
                            /\ output_index(PositionBefore, i, len) = (t + 1 + i) % len

\* With three blocks, all three were evaluated in the same call, the widest
\* one for the fifth time, after the position wrapped around.
C24_Witness ==
    /\ reverb # None
    /\ Len(reverb.blocks) = 3
    /\ convolution.evaluated = {1, 2, 3}
    /\ convolution.evaluations[3] = 5
    /\ convolution.calls > Size(reverb.output_ring)
    /\ convolution.signal.length = 280

\* The sum over the taps k, k+1, ..., to - 1 of ir[k] * input[at-k], for
\* the inputs before the time limit
RECURSIVE Part(_, _, _, _)
Part(at, limit, k, to) ==
    IF k >= to \/ k >= Len(convolution.ir) THEN 0
    ELSE (IF at - k < limit
          THEN convolution.ir[k + 1] * Signal(convolution.signal, at - k)
          ELSE 0)
         + Part(at, limit, k + 1, to)

\* What the blocks of half-width h, 2h, ... have added for the output of
\* time at after t calls: a block has convolved the inputs of the whole
\* half-widths that have passed.  (The taps k <= at - limit have no input
\* before the limit and are left out of the sum.)
RECURSIVE BlockParts(_, _, _)
BlockParts(at, t, h) ==
    IF h >= Len(convolution.ir) THEN 0
    ELSE LET limit == h * (t \div h)
             first == IF at - limit + 1 > h THEN at - limit + 1 ELSE h
         IN  Part(at, limit, first, 2 * h) + BlockParts(at, t, 2 * h)

\* What t calls have added up for the output of time at >= t: the direct
\* taps have convolved every input so far
Accumulated(at, t) ==
    Part(at, t, at - t + 1, DirectWidth) + BlockParts(at, t, DirectWidth)

\* C30: position stays in 0 .. 2*width-1; the slice of the input ring that a
\* block reads lies inside the ring; no call writes to the output ring more
\* than width slots ahead of position; and every slot of the output ring
\* holds what was added so far for its own output time and nothing else, a
\* slot that was returned holding 0.
C30_RingSafety ==
    reverb # None =>
        LET width == SmallestPowerOfTwo(Len(convolution.ir))
            len == 2 * width
        IN  /\ Size(reverb.input_ring) = len
            /\ Size(reverb.output_ring) = len
            /\ reverb.position \in 0..(len - 1)
            /\ \A n \in convolution.evaluated :
                    /\ slice_start(PositionBefore, reverb.blocks[n].width \div 2) >= 0
                    /\ PositionBefore + 1 <= len
            /\ convolution.farthest <= width
            /\ \A d \in 0..(len - 1) :
                    reverb.output_ring[(reverb.position + d) % len]
                        = Accumulated(convolution.calls + d, convolution.calls)

\* When the position has wrapped around, the widest of three blocks has
\* written width slots ahead, and sums for later outputs wait in the ring.
C30_Witness ==
    /\ reverb # None
    /\ Len(convolution.ir) = 70
    /\ convolution.calls >= 256
    /\ convolution.farthest = 128
    /\ reverb.output_ring[(reverb.position + 40) % 256] # 0
    /\ reverb.output_ring[(reverb.position + 255) % 256] = 0

-----------------------------------------------------------------------------
(* Properties of the ensemble behind the silence gate, under Spec *)

\* C27: a generate() call does not return (0,0) early when any instrument
\* of the ensemble has a volume above 0: whenever some instrument's volume
\* is above 0 the Instruments and the Reverb are driven.
C27_NoSoundingVoiceMuted ==
    (/\ pc = "idle"
     /\ director.step > 0
     /\ \E i \in 1..InstrumentCount(director) : director.instruments[i].volume > 0)
        => driven

-----------------------------------------------------------------------------
(* Properties of retriggered transitions, under SpecSched *)

\* Whether the step is the part of a generate() call, at a drain step, that
\* runs update_transitions
UpdatesTransitions ==
    /\ is_drain_step(director.step)
    /\ queue = <<>>
    /\ director'.step = director.step + 1

\* C26: no instrument's envelope jumps when a transition is scheduled while
\* the previous one is in progress: for every instrument i, the first value
\* that an EnvelopeChange assigns to envelope[i] is the value envelope[i] had
\* before.  (The first value is assigned by the first update_transitions in
\* which the delayed time of the instrument has reached the start.)
C26_NoEnvelopeJump ==
    [][UpdatesTransitions =>
        \A k \in 1..Len(director.transitions) :
            \A i \in 1..InstrumentCount(director) :
                LET t == director.transitions[k]
                    j == director.step - director.instrument_delays[i]
                IN  (/\ t.data.kind = "EnvelopeChange"
                     /\ j >= t.start
                     /\ j - DrainInterval < t.start)
                        => director'.envelope[i] = director.envelope[i]]_vars


-----------------------------------------------------------------------------
(* Properties of the sounding of a note, under Spec *)

\* A Director that no generate() call can bring to sound unless another
\* Message arrives: instrument 0's envelope is 0 and every pending envelope
\* transition leads from 0 to 0
Silenced(d) ==
    /\ d.envelope[1] = 0
    /\ \A k \in 1..Len(d.transitions) :
            d.transitions[k].data.kind = "EnvelopeChange"
                => /\ d.transitions[k].data.start_value = 0
                   /\ d.transitions[k].data.end_value = 0

\* C28: every in-range NoteOn that is drained is eventually followed by a
\* generate() call in which the Instruments are driven with instrument 0's
\* volume above 0, whatever NoteOn and NoteOff Messages follow it.  Hence
\* between two calls, with every Message consumed and an in-range NoteOn
\* drained since the ensemble was built, either the Instruments have been
\* driven, or the Director is not silenced: something is left that raises
\* instrument 0's volume without another Message.
C28_EveryNoteSounds ==
    (/\ pc = "idle"
     /\ queue = <<>>
     /\ director.instruments[1].last_note # 0
     /\ Silenced(director))
        => ever_driven


-----------------------------------------------------------------------------
(* The plugin (plugin/src/lib.rs): the process callback reads the note      *)
(* events of each host sample, posts Messages, and takes one stereo sample  *)
(* from the Director, through the two Resamplers when the host rate is not  *)
(* SAMPLE_RATE.  The Director is left out: generate() is a numbered call    *)
(* that returns a sample, and the Messages sent are kept in the order sent. *)

\* The value of last_note before any NoteOn (lib.rs:108): no MIDI note
NoNote == 255
\* The value of last_dynamics before the first process() (lib.rs:109)
NoDynamics == -100

\* ViolaExMachina::default, the fields process() uses
NewPlugin ==
    [need_resample |-> FALSE,
     resample_left |-> NewResampler(SAMPLE_RATE),
     resample_right |-> NewResampler(SAMPLE_RATE),
     last_note |-> NoNote,
     last_dynamics |-> NoDynamics]

\* ViolaExMachina::initialize, lines 170-172
initialize(p, sample_rate) ==
    [p EXCEPT !.need_resample = (sample_rate # SAMPLE_RATE),
              !.resample_left = NewResampler(sample_rate),
              !.resample_right = NewResampler(sample_rate)]

\* The note events a host delivers
EventNoteOn(note) == [event |-> "NoteOn", note |-> note]
EventNoteOff(note) == [event |-> "NoteOff", note |-> note]
EventPitchBend(value) == [event |-> "MidiPitchBend", note |-> value]

\* What one turn of a call has done so far: the plugin, the flag of the
\* sample, the Messages sent and the calls made, in order
Sent(m) == [call |-> "send", message |-> m]
Called(name) == [call |-> name, message |-> None]

\* Mutant of handle_event: a NoteOn leaves a pending NoteOff pending
handle_event_keep_off(st, event) ==
    IF event.event = "NoteOn"
    THEN [st EXCEPT !.log = Append(st.log, Sent(NoteOn(event.note))),
                    !.plugin.last_note = event.note]
    ELSE IF event.event = "NoteOff"
    THEN IF event.note = st.plugin.last_note
         THEN [st EXCEPT !.send_note_off = TRUE]
         ELSE st
    ELSE [st EXCEPT !.log = Append(st.log,
                        Sent(SetPitchBend((4 * (event.note - 50)) \div 100)))]

\* process(), lines 233-255: the match on one event
handle_event(st, event) ==
    IF event.event = "NoteOn"
    THEN [st EXCEPT !.log = Append(st.log, Sent(NoteOn(event.note))),
                    !.plugin.last_note = event.note,
                    !.send_note_off = FALSE]
    ELSE IF event.event = "NoteOff"
    THEN IF event.note = st.plugin.last_note
         THEN [st EXCEPT !.send_note_off = TRUE]
         ELSE st
    ELSE [st EXCEPT !.log = Append(st.log,
                        Sent(SetPitchBend((4 * (event.note - 50)) \div 100)))]

\* process(), lines 229-256: the events whose timing is this sample
RECURSIVE handle_events(_, _)
handle_events(st, events) ==
    IF events = <<>> THEN st
    ELSE handle_events(handle_event(st, Head(events)), Tail(events))

\* process(), lines 257-259
send_pending_note_off(st) ==
    IF st.send_note_off
    THEN [st EXCEPT !.log = Append(st.log, Sent(NoteOff))]
    ELSE st

\* The stereo sample the n-th generate() call returns
DirectorOutput(n) == [left |-> (n % 3) + 1, right |-> 2 - (n % 2)]

\* One turn of the loop of lines 263-267: generate() and the two add_input
feed_turn(st) ==
    LET out == DirectorOutput(st.generated + 1)
        l == add_input(st.plugin.resample_left, out.left)
        r == add_input(st.plugin.resample_right, out.right)
    IN  IF l.panic # NoPanic
        THEN [st EXCEPT !.generated = st.generated + 1,
                        !.log = st.log \o <<Called("generate"), Called("add_input")>>,
                        !.panic = l.panic]
        ELSE [st EXCEPT !.generated = st.generated + 1,
                        !.log = st.log \o <<Called("generate"), Called("add_input"),
                                            Called("add_input")>>,
                        !.plugin.resample_left = l.resampler,
                        !.plugin.resample_right = r.resampler,
                        !.panic = r.panic]

\* Mutant of feed: the loop is an if, one input is added at most
feed_once(st, limit) ==
    IF has_output(st.plugin.resample_left) THEN st ELSE feed_turn(st)

\* process(), lines 263-267: the loop that feeds the Director's output to
\* the Resamplers until the left one has output.  The model follows it for
\* limit turns.
RECURSIVE feed(_, _)
feed(st, limit) ==
    IF st.panic # NoPanic \/ has_output(st.plugin.resample_left) THEN st
    ELSE IF limit = 0 THEN [st EXCEPT !.terminated = FALSE]
    ELSE feed(feed_turn(st), limit - 1)

\* process(), lines 268-269: the two get_output
take_output(st) ==
    IF st.panic # NoPanic \/ ~st.terminated THEN st
    ELSE LET l == get_output(st.plugin.resample_left)
             r == get_output(st.plugin.resample_right)
         IN  IF l.panic # NoPanic
             THEN [st EXCEPT !.log = Append(st.log, Called("get_output")),
                             !.panic = l.panic]
             ELSE [st EXCEPT !.log = st.log \o <<Called("get_output"),
                                                 Called("get_output")>>,
                             !.plugin.resample_left = l.resampler,
                             !.plugin.resample_right = r.resampler,
                             !.panic = r.panic,
                             !.outputs = IF r.panic = NoPanic THEN st.outputs + 1
                                         ELSE st.outputs,
                             !.left = l.result,
                             !.right = r.result]

\* process(), lines 260-273: the sample of this turn
take_sample(st, limit) ==
    IF st.plugin.need_resample
    THEN take_output(feed(st, limit))
    ELSE LET out == DirectorOutput(st.generated + 1)
         IN  [st EXCEPT !.generated = st.generated + 1,
                        !.log = Append(st.log, Called("generate")),
                        !.outputs = st.outputs + 1,
                        !.left = out.left * SAMPLE_RATE,
                        !.right = out.right * SAMPLE_RATE]

\* process(), lines 227-273: one turn of the loop over the samples of the
\* buffer, with the events whose timing is this sample
process_sample(p, generated, events, limit) ==
    take_sample(
        send_pending_note_off(
            handle_events([plugin |-> p, send_note_off |-> FALSE, log |-> <<>>,
                           generated |-> generated, outputs |-> 0,
                           panic |-> NoPanic, terminated |-> TRUE,
                           left |-> 0, right |-> 0],
                          events)),
        limit)

\* The turns the model follows the feeding loop for
FeedLimit == 8

\* The host constructs the plugin
InitPlugin ==
    /\ plugin = NewPlugin
    /\ processed = [call |-> "new",
                    initialized |-> 0, sample_rate |-> 0, remaining |-> 0,
                    samples |-> 0, generated |-> 0, outputs |-> 0,
                    events |-> <<>>, last_note |-> NoNote, log |-> <<>>,
                    panic |-> NoPanic, terminated |-> TRUE,
                    left |-> 0, right |-> 0]

\* The host calls initialize() with its sample rate, between two buffers
Initialize(sample_rate) ==
    /\ processed.remaining = 0
    /\ processed.panic = NoPanic /\ processed.terminated
    /\ plugin' = initialize(plugin, sample_rate)
    /\ processed' = [processed EXCEPT !.call = "initialize",
                                      !.initialized = processed.initialized + 1,
                                      !.sample_rate = sample_rate,
                                      !.events = <<>>, !.log = <<>>]
    /\ UNCHANGED <<director_vars, resampler_vars, reverb_vars, random_vars,
                   instrument_vars>>

\* The host calls process() with a buffer of some length: lines 188-226,
\* of which the parameter dynamics stands for the nine parameters compared
\* with their last values
StartProcess(length, dynamics) ==
    /\ processed.initialized > 0
    /\ processed.remaining = 0
    /\ processed.panic = NoPanic /\ processed.terminated
    /\ plugin' = [plugin EXCEPT !.last_dynamics = dynamics]
    /\ processed' = [processed EXCEPT
            !.call = "process",
            !.remaining = length,
            !.events = <<>>,
            !.log = IF plugin.last_dynamics # dynamics
                    THEN <<Sent(SetVolume(dynamics))>> ELSE <<>>]
    /\ UNCHANGED <<director_vars, resampler_vars, reverb_vars, random_vars,
                   instrument_vars>>

\* One turn of the loop of process() over the samples of the buffer
ProcessSample(events) ==
    /\ processed.remaining > 0
    /\ processed.panic = NoPanic /\ processed.terminated
    /\ LET st == process_sample(plugin, processed.generated, events, FeedLimit)
       IN  /\ plugin' = st.plugin
           /\ processed' = [processed EXCEPT
                    !.call = "sample",
                    !.remaining = processed.remaining - 1,
                    !.samples = processed.samples + 1,
                    !.generated = st.generated,
                    !.outputs = st.outputs,
                    !.events = events,
                    !.last_note = plugin.last_note,
                    !.log = st.log,
                    !.panic = st.panic,
                    !.terminated = st.terminated,
                    !.left = st.left,
                    !.right = st.right]
    /\ UNCHANGED <<director_vars, resampler_vars, reverb_vars, random_vars,
                   instrument_vars>>

(* SpecPluginNotes: the host delivers any short sequence of note events    *)
(* with each sample of a few buffers.                                       *)

NoteSamples == 2
MaxEvents == 2
HostNotes == {60, 62}
HostEvents ==
    {EventNoteOn(n) : n \in HostNotes} \cup {EventNoteOff(n) : n \in HostNotes}
        \cup {EventPitchBend(75)}
EventSequences == UNION {[1..n -> HostEvents] : n \in 0..MaxEvents}
NoteRates == {44100, SAMPLE_RATE}
HostDynamics == {50, 80}

InitPluginWith ==
    /\ InitDirector({"Violin"}, {1})
    /\ evaluation = None
    /\ NoResampler
    /\ NoReverb
    /\ NoRandom
    /\ NoInstrument
    /\ InitPlugin

NextPluginNotes ==
    \/ processed.initialized < 1 /\ \E rate \in NoteRates : Initialize(rate)
    \/ \E length \in 1..(NoteSamples - processed.samples) :
            StartProcess(length, 50)
    \/ \E events \in EventSequences : ProcessSample(events)

SpecPluginNotes == InitPluginWith /\ [][NextPluginNotes]_vars

(* SpecPluginRates: the host runs the plugin at each of a set of sample     *)
(* rates, may initialize it again between two buffers, and delivers no      *)
(* events.                                                                  *)

RateSamples == 150
HostRates == {8000, 44100, SAMPLE_RATE, 96000}
MaxInitialize == 2

NextPluginRates ==
    \/ /\ processed.initialized < MaxInitialize
       /\ processed.samples \in {0, 5}
       /\ \E rate \in HostRates : Initialize(rate)
    \/ \E length \in 1..Min(2, RateSamples - processed.samples) :
            \E dynamics \in HostDynamics : StartProcess(length, dynamics)
    \/ ProcessSample(<<>>)

SpecPluginRates == InitPluginWith /\ [][NextPluginRates]_vars


-----------------------------------------------------------------------------
(* Properties of the note events of one sample, under SpecPluginNotes *)

\* The positions of a sequence of calls that hold a Message of a type
SendsOf(log, type) ==
    {k \in 1..Len(log) : log[k].call = "send" /\ log[k].message.type = type}
CallsOf(log, name) == {k \in 1..Len(log) : log[k].call = name}

\* The positions of the NoteOn events among the first n events
NoteOnsUpTo(events, n) == {j \in 1..n : events[j].event = "NoteOn"}

\* The note of the NoteOn most recently read before the k-th event of the
\* sample: of this sample if there is one, of an earlier sample otherwise
LastNoteAt(events, k, before) ==
    IF NoteOnsUpTo(events, k - 1) = {} THEN before
    ELSE events[Max(NoteOnsUpTo(events, k - 1))].note

\* The order-preserving map between the NoteOn events and the NoteOn sends
Ordered(positions) ==
    [n \in 1..Cardinality(positions) |->
        CHOOSE k \in positions : Cardinality({j \in positions : j <= k}) = n]

\* C25: of the events that share one sample position, every NoteOn is
\* forwarded as a NoteOn Message, in order, and becomes last_note; a NoteOff
\* Message is sent exactly if some NoteOff event carries the note that is
\* last_note when it is read and no NoteOn comes after it; at most one
\* NoteOff Message is sent, after every NoteOn Message of the sample and
\* before every generate() call of the sample.
C25_NoteFiltering ==
    (processed # None /\ processed.call = "sample") =>
        LET events == processed.events
            log == processed.log
            ons == Ordered(NoteOnsUpTo(events, Len(events)))
            on_sends == Ordered(SendsOf(log, "NoteOn"))
            off_sends == SendsOf(log, "NoteOff")
        IN  /\ Len(on_sends) = Len(ons)
            /\ \A n \in 1..Len(ons) :
                    log[on_sends[n]].message.note_index = events[ons[n]].note
            /\ plugin.last_note = LastNoteAt(events, Len(events) + 1, processed.last_note)
            /\ off_sends # {} <=>
                    \E k \in 1..Len(events) :
                        /\ events[k].event = "NoteOff"
                        /\ events[k].note = LastNoteAt(events, k, processed.last_note)
                        /\ \A j \in (k + 1)..Len(events) : events[j].event # "NoteOn"
            /\ Cardinality(off_sends) <= 1
            /\ \A k \in off_sends :
                    /\ \A j \in SendsOf(log, "NoteOn") : j < k
                    /\ \A j \in CallsOf(log, "generate") : k < j
            /\ \A k \in CallsOf(log, "send") : \A j \in CallsOf(log, "generate") : k < j

\* A legato transition through the Resamplers: the NoteOff of the note that
\* sounds and the NoteOn of another note at one sample, and no NoteOff sent
C25_Witness ==
    /\ processed # None
    /\ processed.call = "sample"
    /\ processed.sample_rate = 44100
    /\ processed.last_note = 60
    /\ processed.events = <<EventNoteOff(60), EventNoteOn(62)>>
    /\ SendsOf(processed.log, "NoteOn") = {1}
    /\ SendsOf(processed.log, "NoteOff") = {}
    /\ CallsOf(processed.log, "generate") # {}

-----------------------------------------------------------------------------
(* Properties of the resampling path, under SpecPluginRates *)

\* C29: the two Resamplers of the plugin always have the same timing state,
\* no add_input is issued to one that has output ready and no get_output to
\* one that has none (neither assertion fails), the feeding loop ends, and
\* each host sample takes exactly one value from each Resampler, every
\* generate() call of the sample feeding one input to each.
C29_ResamplerProtocol ==
    plugin # None =>
        /\ plugin.resample_left.x2 = plugin.resample_right.x2
        /\ plugin.resample_left.next_output_time = plugin.resample_right.next_output_time
        /\ plugin.resample_left.output_interval = plugin.resample_right.output_interval
        /\ plugin.resample_left.sample_rate = plugin.resample_right.sample_rate
        /\ processed.panic = NoPanic
        /\ processed.terminated
        /\ processed.call = "sample" =>
                /\ processed.outputs = 1
                /\ plugin.need_resample =>
                        /\ Cardinality(CallsOf(processed.log, "get_output")) = 2
                        /\ Cardinality(CallsOf(processed.log, "add_input"))
                                = 2 * Cardinality(CallsOf(processed.log, "generate"))
                        /\ Cardinality(CallsOf(processed.log, "generate")) * processed.sample_rate
                                < SAMPLE_RATE + processed.sample_rate

\* A host at 8000 Hz, initialized twice: a sample that took six generate()
\* calls, long after the Resamplers began to rewind
C29_Witness ==
    /\ plugin # None
    /\ processed.call = "sample"
    /\ processed.sample_rate = 8000
    /\ processed.initialized = 2
    /\ processed.samples = 100
    /\ Cardinality(CallsOf(processed.log, "generate")) = 6
    /\ plugin.resample_left.x2 <= 2 * 8000


-----------------------------------------------------------------------------
(* Instrument, in full (instrument.rs): the frames of one voice and the     *)
(* tails of its previous notes.  Periods and period_offset are counted in   *)
(* units of 1/PeriodScale of a sample and the arithmetic on them is exact.  *)
(* A spectrum bin is one integer and a sample is an integer number of       *)
(* thousandths.  The bow excitation, the damping filters and the inverse    *)
(* FFT are stand-ins that keep what the frame logic depends on: the         *)
(* excitation is added to the bins from 1 on when the volume is not 0, a    *)
(* filter shrinks every bin from 1 on and leaves bin 0, the DecayingNote's  *)
(* filter the faster, and the transform makes the samples of a frame from   *)
(* the bins of its spectrum, all samples 0 for a spectrum of zeros.         *)

PeriodScale == 4
\* DecayingNote::generate, line 305: 0.001, in thousandths
QuietLevel == 1
\* What add_bow_excitation adds to a bin at full volume
Excitation == 8

\* Instrument::apply_filter
InstrumentApplyFilter(spectrum_buffer, spectrum_size) ==
    [k \in 1..Len(spectrum_buffer) |->
        IF 1 < k /\ k <= spectrum_size
        THEN (3 * spectrum_buffer[k]) \div 4 ELSE spectrum_buffer[k]]

\* DecayingNote::apply_filter
DecayingNoteApplyFilter(spectrum_buffer) ==
    [k \in 1..Len(spectrum_buffer) |->
        IF 1 < k THEN spectrum_buffer[k] \div 2 ELSE spectrum_buffer[k]]

\* Instrument::add_bow_excitation
add_bow_excitation(spectrum_buffer, spectrum_size, volume) ==
    [k \in 1..Len(spectrum_buffer) |->
        IF 1 < k /\ k <= spectrum_size
        THEN spectrum_buffer[k] + volume * Excitation ELSE spectrum_buffer[k]]

\* transform_spectrum: the output_size samples made from a spectrum
Wave(k, n) == IF (k * n) % 2 = 0 THEN 1 ELSE -1
RECURSIVE Harmonics(_, _, _)
Harmonics(spectrum, k, n) ==
    IF k > Len(spectrum) THEN 0
    ELSE spectrum[k] * Wave(k - 1, n) + Harmonics(spectrum, k + 1, n)
transform_spectrum(spectrum, output_size) ==
    [n \in 1..output_size |-> Harmonics(spectrum, 1, n - 1)]

\* Vec::resize to a length no shorter, with zeros
grow(buffer, size) ==
    [k \in 1..(IF size > Len(buffer) THEN size ELSE Len(buffer)) |->
        IF k <= Len(buffer) THEN buffer[k] ELSE 0]

\* The first size entries of a buffer replaced by a frame
write_frame(buffer, frame) ==
    [k \in 1..Len(buffer) |-> IF k <= Len(frame) THEN frame[k] ELSE buffer[k]]

\* DecayingNote::new.  id tells the DecayingNotes of an Instrument apart: it
\* is the number of DecayingNotes made before this one.
DecayingNoteNew(initial_spectrum, output_size, id) ==
    [spectrum_buffer |-> initial_spectrum,
     output_buffer |-> [n \in 1..output_size |-> 0],
     output_position |-> output_size,
     finished |-> FALSE,
     id |-> id]

\* DecayingNote::generate, lines 299-308: no sample of the frame is above
\* 0.001 in magnitude
is_quiet(output_buffer) ==
    \A n \in 1..Len(output_buffer) : Abs(output_buffer[n]) <= QuietLevel

\* DecayingNote::generate: the note after the call and the value returned
DecayingNoteGenerate(note) ==
    IF note.finished THEN [note |-> note, result |-> 0]
    ELSE LET output_size == Len(note.output_buffer)
             regenerated ==
                IF note.output_position >= output_size
                THEN LET spectrum == DecayingNoteApplyFilter(note.spectrum_buffer)
                         frame == transform_spectrum(spectrum, output_size)
                     IN  [note EXCEPT !.spectrum_buffer = spectrum,
                                      !.output_buffer = frame,
                                      !.output_position = 0,
                                      !.finished = is_quiet(frame)]
                ELSE note
         IN  [note |-> [regenerated EXCEPT !.output_position = regenerated.output_position + 1],
              result |-> regenerated.output_buffer[regenerated.output_position + 1]]

\* Instrument::new, the fields that decide the frames
NewVoice ==
    [volume |-> 1,
     start_new_note |-> FALSE,
     last_note |-> 0,
     spectrum_buffer |-> <<>>,
     output_buffer |-> <<>>,
     spectrum_size |-> 0,
     output_size |-> 0,
     output_position |-> 0,
     period |-> 0,
     period_offset |-> 0,
     decaying_notes |-> <<>>,
     made |-> 0]

\* Mutant of begin_note: the signal is left pending
begin_note_keep_signal(v) ==
    IF v.start_new_note
    THEN [v EXCEPT
            !.decaying_notes =
                IF v.spectrum_size > 0
                THEN Append(v.decaying_notes,
                            DecayingNoteNew(SubSeq(v.spectrum_buffer, 1, v.spectrum_size),
                                            v.output_size, v.made))
                ELSE v.decaying_notes,
            !.made = IF v.spectrum_size > 0 THEN v.made + 1 ELSE v.made,
            !.spectrum_buffer =
                [k \in 1..Len(v.spectrum_buffer) |->
                    IF 1 < k /\ k <= v.spectrum_size THEN 0 ELSE v.spectrum_buffer[k]]]
    ELSE v

\* Instrument::generate, lines 166-177: the tail of the previous note is
\* moved to a DecayingNote and the live spectrum is cleared.  made counts
\* the DecayingNotes made so far.
begin_note(v) ==
    IF v.start_new_note
    THEN [v EXCEPT
            !.decaying_notes =
                IF v.spectrum_size > 0
                THEN Append(v.decaying_notes,
                            DecayingNoteNew(SubSeq(v.spectrum_buffer, 1, v.spectrum_size),
                                            v.output_size, v.made))
                ELSE v.decaying_notes,
            !.made = IF v.spectrum_size > 0 THEN v.made + 1 ELSE v.made,
            !.spectrum_buffer =
                [k \in 1..Len(v.spectrum_buffer) |->
                    IF 1 < k /\ k <= v.spectrum_size THEN 0 ELSE v.spectrum_buffer[k]],
            !.start_new_note = FALSE]
    ELSE v

\* Instrument::generate, lines 181-183 and 241-243: every DecayingNote
\* generates a sample
generate_tails(decaying_notes) ==
    [n \in 1..Len(decaying_notes) |-> DecayingNoteGenerate(decaying_notes[n])]

RECURSIVE sum_results(_, _)
sum_results(generated, n) ==
    IF n > Len(generated) THEN 0
    ELSE generated[n].result + sum_results(generated, n + 1)

\* Mutant of retain: no DecayingNote is removed
retain_all(decaying_notes) == decaying_notes

\* Instrument::generate, line 184
RECURSIVE retain(_)
retain(decaying_notes) ==
    IF decaying_notes = <<>> THEN <<>>
    ELSE IF Head(decaying_notes).finished THEN retain(Tail(decaying_notes))
    ELSE <<Head(decaying_notes)>> \o retain(Tail(decaying_notes))

\* Mutant of resize_frame: the remainder of the rounding is dropped
resize_frame_no_carry(v, new_period) ==
    LET new_output_size == (new_period + v.period_offset) \div PeriodScale
        new_spectrum_size == (new_output_size + 2) \div 2
        spectrum == grow(v.spectrum_buffer, new_spectrum_size)
    IN  [v EXCEPT
            !.output_buffer = grow(v.output_buffer, new_output_size),
            !.spectrum_buffer =
                [k \in 1..Len(spectrum) |->
                    IF v.spectrum_size < k /\ k <= new_spectrum_size
                    THEN 0 ELSE spectrum[k]],
            !.period = new_period,
            !.output_size = new_output_size,
            !.spectrum_size = new_spectrum_size,
            !.period_offset = 0]

\* Instrument::generate, lines 205-221: the length of the frame, the size of
\* its spectrum and the remainder carried to the next frame
resize_frame(v, new_period) ==
    LET new_output_size == (new_period + v.period_offset) \div PeriodScale
        new_spectrum_size == (new_output_size + 2) \div 2
        spectrum == grow(v.spectrum_buffer, new_spectrum_size)
    IN  [v EXCEPT
            !.output_buffer = grow(v.output_buffer, new_output_size),
            !.spectrum_buffer =
                [k \in 1..Len(spectrum) |->
                    IF v.spectrum_size < k /\ k <= new_spectrum_size
                    THEN 0 ELSE spectrum[k]],
            !.period = new_period,
            !.output_size = new_output_size,
            !.spectrum_size = new_spectrum_size,
            !.period_offset =
                new_period + v.period_offset - new_output_size * PeriodScale]

\* Instrument::generate, lines 225-238: the spectrum is excited and damped
\* and the samples of the frame are made from it
synthesize_frame(v) ==
    LET excited == IF v.volume # 0
                   THEN add_bow_excitation(v.spectrum_buffer, v.spectrum_size, v.volume)
                   ELSE v.spectrum_buffer
        spectrum == InstrumentApplyFilter(excited, v.spectrum_size)
    IN  [v EXCEPT
            !.spectrum_buffer = spectrum,
            !.output_buffer =
                write_frame(v.output_buffer,
                            transform_spectrum(SubSeq(spectrum, 1, v.spectrum_size),
                                               v.output_size)),
            !.output_position = 0]

\* Instrument::generate: the Instrument after the call and the value
\* returned, together with what the call did on the way: whether it began a
\* frame, the DecayingNotes pushed and the spectrum left by lines 166-177,
\* the DecayingNotes after their generate and before retain, and the value
\* each one returned
VoiceGenerate(v, new_period) ==
    LET boundary == v.output_position >= v.output_size
        begun == IF boundary THEN begin_note(v) ELSE v
        generated == generate_tails(begun.decaying_notes)
        tails == [n \in 1..Len(generated) |-> generated[n].note]
        framed ==
            IF boundary
            THEN synthesize_frame(
                    resize_frame([begun EXCEPT !.decaying_notes = retain(tails)],
                                 new_period))
            ELSE [begun EXCEPT !.decaying_notes = tails]
    IN  [voice |-> [framed EXCEPT !.output_position = framed.output_position + 1],
         result |-> sum_results(generated, 1)
                        + framed.output_buffer[framed.output_position + 1],
         boundary |-> boundary,
         pushed |-> SubSeq(begun.decaying_notes, Len(v.decaying_notes) + 1,
                           Len(begun.decaying_notes)),
         cleared |-> begun.spectrum_buffer,
         tails |-> tails,
         contributions |-> [n \in 1..Len(generated) |-> generated[n].result]]

\* A caller constructs an Instrument
InitVoice ==
    /\ voice = NewVoice
    /\ playing = [call |-> "new", calls |-> 0, note |-> 0, note_ons |-> 0,
                  raised |-> 0, acted_on |-> 0, carried |-> 0,
                  boundary |-> FALSE, frames |-> 0, periods |-> 0, lengths |-> 0,
                  result |-> 0, pushed |-> <<>>, cleared |-> <<>>, tails |-> <<>>,
                  contributions |-> <<>>]

\* The Director calls note_on
VoiceNoteOn(note) ==
    /\ voice' = InstrumentNoteOn(voice, note)
    /\ playing' = [playing EXCEPT
            !.call = "note_on",
            !.note = note,
            !.note_ons = playing.note_ons + 1,
            !.raised = IF note # voice.last_note THEN playing.raised + 1
                       ELSE playing.raised]
    /\ UNCHANGED <<director_vars, resampler_vars, reverb_vars, random_vars,
                   plugin_vars>>

\* The Director calls set_volume
VoiceSetVolume(volume) ==
    /\ voice.volume # volume
    /\ voice' = [voice EXCEPT !.volume = volume]
    /\ playing' = [playing EXCEPT !.call = "set_volume"]
    /\ UNCHANGED <<director_vars, resampler_vars, reverb_vars, random_vars,
                   plugin_vars>>

\* The Director calls generate; new_period is SAMPLE_RATE over the
\* frequency of the moment, vibrato included, if the call begins a frame
VoiceGenerateCall(new_period) ==
    /\ LET out == VoiceGenerate(voice, new_period)
       IN  /\ voice' = out.voice
           /\ playing' = [playing EXCEPT
                    !.call = "generate",
                    !.calls = playing.calls + 1,
                    !.boundary = out.boundary,
                    !.raised = IF out.boundary THEN 0 ELSE playing.raised,
                    !.acted_on = IF out.boundary THEN playing.raised ELSE 0,
                    !.carried = IF out.boundary THEN voice.period_offset
                                ELSE playing.carried,
                    !.frames = IF out.boundary THEN playing.frames + 1
                               ELSE playing.frames,
                    !.periods = IF out.boundary THEN playing.periods + new_period
                                ELSE playing.periods,
                    !.lengths = IF out.boundary
                                THEN playing.lengths + out.voice.output_size
                                ELSE playing.lengths,
                    !.result = out.result,
                    !.pushed = out.pushed,
                    !.cleared = out.cleared,
                    !.tails = out.tails,
                    !.contributions = out.contributions]
    /\ UNCHANGED <<director_vars, resampler_vars, reverb_vars, random_vars,
                   plugin_vars>>

(* SpecVoice: an Instrument plays a few notes.  The period changes from     *)
(* frame to frame, as vibrato and pitch changes make it; the notes change   *)
(* and the volume is switched at any call.                                  *)

VoiceCalls == 20
MaxNoteOns == 3
VoicePeriods == {10, 17}
VoiceNotes == {60, 62}
NoteOnCalls == {0, 6, 7, 12}
VoiceVolumes == {0, 1}

InitVoiceWith ==
    /\ InitDirector({"Violin"}, {1})
    /\ evaluation = None
    /\ NoResampler
    /\ NoReverb
    /\ NoRandom
    /\ NoPlugin
    /\ InitVoice

NextVoice ==
    \/ /\ playing.note_ons < MaxNoteOns
       /\ playing.calls \in NoteOnCalls
       /\ \E note \in VoiceNotes : VoiceNoteOn(note)
    \/ /\ playing.calls < VoiceCalls
       /\ playing.calls % 8 = 7
       /\ \E volume \in VoiceVolumes : VoiceSetVolume(volume)
    \/ /\ playing.calls < VoiceCalls
       /\ IF voice.output_position >= voice.output_size
          THEN \E new_period \in VoicePeriods : VoiceGenerateCall(new_period)
          ELSE VoiceGenerateCall(voice.period)

SpecVoice == InitVoiceWith /\ [][NextVoice]_vars


-----------------------------------------------------------------------------
(* Properties of the new-note signal of an Instrument, under SpecVoice *)

\* A generate() call, and a note_on call, of the Instrument
GeneratesVoice == playing'.call = "generate" /\ playing'.calls = playing.calls + 1
SignalsVoice == playing'.call = "note_on" /\ playing'.note_ons = playing.note_ons + 1

\* C21: a generate() call acts on a pending new-note signal exactly if it
\* begins a frame (output_position >= output_size).  Then it clears the
\* signal, zeroes the bins from 1 on of the live spectrum and keeps bin 0,
\* and, if spectrum_size > 0, pushes exactly one DecayingNote, made of a
\* copy of the spectrum window and of the frame length of before the call;
\* so whatever number of note_on calls raised the signal, one snapshot is
\* taken.  Any other generate() call pushes nothing, leaves the signal as it
\* is and zeroes nothing.  note_on with the note of the previous note_on
\* changes nothing; with another note it raises the signal.
C21_NewNoteSnapshot ==
    [][/\ GeneratesVoice =>
            LET at_boundary == voice.output_position >= voice.output_size
                window == SubSeq(voice.spectrum_buffer, 1, voice.spectrum_size)
            IN  IF at_boundary /\ voice.start_new_note
                THEN /\ ~voice'.start_new_note
                     /\ Len(playing'.cleared) = Len(voice.spectrum_buffer)
                     /\ \A k \in 1..Len(voice.spectrum_buffer) :
                            playing'.cleared[k] =
                                IF 1 < k /\ k <= voice.spectrum_size THEN 0
                                ELSE voice.spectrum_buffer[k]
                     /\ IF voice.spectrum_size > 0
                        THEN /\ Len(playing'.pushed) = 1
                             /\ playing'.pushed[1].spectrum_buffer = window
                             /\ Len(playing'.pushed[1].output_buffer) = voice.output_size
                             /\ ~playing'.pushed[1].finished
                        ELSE playing'.pushed = <<>>
                ELSE /\ playing'.pushed = <<>>
                     /\ playing'.cleared = voice.spectrum_buffer
                     /\ voice'.start_new_note = voice.start_new_note
       /\ SignalsVoice =>
            IF playing'.note = voice.last_note
            THEN voice' = voice
            ELSE voice' = [voice EXCEPT !.start_new_note = TRUE,
                                        !.last_note = playing'.note]
      ]_vars

\* Two note_on calls raised the signal since the frame began; the call that
\* begins the next frame has taken one snapshot of a spectrum that sounds
C21_Witness ==
    /\ playing # None
    /\ playing.call = "generate"
    /\ playing.boundary
    /\ playing.acted_on = 2
    /\ Len(playing.pushed) = 1
    /\ \E k \in 2..Len(playing.pushed[1].spectrum_buffer) :
            playing.pushed[1].spectrum_buffer[k] > 0
    /\ \A k \in 2..voice.spectrum_size : playing.cleared[k] = 0
    /\ ~voice.start_new_note


-----------------------------------------------------------------------------
(* Properties of the DecayingNotes of an Instrument, under SpecVoice *)

\* No sample of the frame a DecayingNote holds is above 0.001 in magnitude
QuietFrame(note) ==
    \A n \in 1..Len(note.output_buffer) :
        /\ note.output_buffer[n] <= QuietLevel
        /\ -note.output_buffer[n] <= QuietLevel

\* The DecayingNotes of a list, in order, that are not finished
RECURSIVE Unfinished(_)
Unfinished(notes) ==
    IF notes = <<>> THEN <<>>
    ELSE (IF Head(notes).finished THEN <<>> ELSE <<Head(notes)>>)
            \o Unfinished(Tail(notes))

\* Every DecayingNote of the list is finished exactly if the frame it holds
\* is quiet; the call that began the Instrument's frame has left no
\* finished DecayingNote in the list.
TailsInvariant ==
    voice # None =>
        /\ \A n \in 1..Len(voice.decaying_notes) :
                voice.decaying_notes[n].finished <=> QuietFrame(voice.decaying_notes[n])
        /\ \A n \in 1..Len(playing.tails) :
                playing.tails[n].finished <=> QuietFrame(playing.tails[n])
        /\ (playing.call = "generate" /\ playing.boundary) =>
                \A n \in 1..Len(voice.decaying_notes) : ~voice.decaying_notes[n].finished

\* In a generate() call every DecayingNote keeps its frame length; one that
\* is finished returns 0 and stays as it is, any other returns the sample at
\* its own read position, of a new frame if the position was at the end of
\* the frame.  The call that begins a frame of the Instrument removes the
\* finished DecayingNotes and no other; any other call removes none.  Calls
\* other than generate() leave the list as it is.
TailsStep ==
    /\ GeneratesVoice =>
        /\ \A n \in 1..Len(voice.decaying_notes) :
            LET before == voice.decaying_notes[n]
                after == playing'.tails[n]
                length == Len(before.output_buffer)
            IN  /\ after.id = before.id
                /\ Len(after.output_buffer) = length
                /\ Len(after.spectrum_buffer) = Len(before.spectrum_buffer)
                /\ IF before.finished
                   THEN after = before /\ playing'.contributions[n] = 0
                   ELSE /\ after.output_position =
                                IF before.output_position >= length THEN 1
                                ELSE before.output_position + 1
                        /\ before.output_position < length
                                => after.output_buffer = before.output_buffer
                        /\ playing'.contributions[n] =
                                after.output_buffer[after.output_position]
        /\ voice'.decaying_notes =
                IF voice.output_position >= voice.output_size
                THEN Unfinished(playing'.tails) ELSE playing'.tails
    /\ ~GeneratesVoice => voice'.decaying_notes = voice.decaying_notes

\* C22: a DecayingNote is finished exactly when the frame it regenerated has
\* no sample above 0.001 in magnitude; once finished it contributes 0 to
\* every sample and is removed by the call that begins the Instrument's
\* next frame; a DecayingNote that is not finished is never removed;
\* DecayingNotes coexist, each with its own frame length and read position.
C22_DecayingNoteLifecycle == []TailsInvariant /\ [][TailsStep]_vars

\* Two DecayingNotes of different frame lengths at different read
\* positions in the middle of a frame of the Instrument; the older one is
\* finished and contributed 0, the other one sounds
C22_Witness ==
    /\ voice # None
    /\ playing.call = "generate"
    /\ ~playing.boundary
    /\ Len(voice.decaying_notes) = 2
    /\ voice.decaying_notes[1].finished
    /\ ~voice.decaying_notes[2].finished
    /\ Len(voice.decaying_notes[1].output_buffer) # Len(voice.decaying_notes[2].output_buffer)
    /\ voice.decaying_notes[1].output_position # voice.decaying_notes[2].output_position
    /\ playing.contributions[1] = 0
    /\ playing.contributions[2] > QuietLevel


-----------------------------------------------------------------------------
(* Properties of the frame lengths of an Instrument, under SpecVoice *)

\* C23: the length of a frame is the whole part of the period plus the
\* period_offset carried to it, and the fraction is carried on: after every
\* frame 0 <= period_offset < 1, and the sum of the frame lengths is below
\* the sum of the periods of the frames by period_offset, less than one
\* sample.  0 <= output_position <= output_size, and a frame of length L
\* returns exactly L samples: the samples returned are those of the frames
\* before and output_position of the current one.
C23_PeriodDrift ==
    voice # None =>
        /\ 0 <= voice.period_offset
        /\ voice.period_offset < PeriodScale
        /\ playing.periods - playing.lengths * PeriodScale = voice.period_offset
        /\ 0 <= voice.output_position
        /\ voice.output_position <= voice.output_size
        /\ playing.calls = playing.lengths - (voice.output_size - voice.output_position)
        /\ playing.frames > 0 =>
                /\ voice.output_size * PeriodScale <= voice.period + playing.carried
                /\ voice.period + playing.carried < (voice.output_size + 1) * PeriodScale
                /\ voice.period_offset =
                        voice.period + playing.carried - voice.output_size * PeriodScale

\* A frame of five samples made of a period of 4.25 and a carried offset of
\* 0.75, returned in full, after frames of other lengths
C23_Witness ==
    /\ voice # None
    /\ playing.frames >= 4
    /\ voice.period = 17
    /\ playing.carried = 3
    /\ voice.output_size = 5
    /\ voice.output_position = 5
    /\ voice.period_offset = 0
    /\ playing.lengths * PeriodScale = playing.periods

=============================================================================
